---------------------------- MODULE Spec2Model ----------------------------
(***************************************************************************)
(* A model of the Neovim UI client of opentui-nvim (class NvimRenderable   *)
(* of src/src/NvimRenderable.ts, second definition, lines 526-1843).       *)
(*                                                                         *)
(* The component keeps four groups of state that the code never mixes:     *)
(*   - the grid (gridW, gridH, grid) written by the redraw events,         *)
(*   - the binding to one remote text buffer (getValue / setValue),        *)
(*   - the completion popup, mirrored from remote popupmenu events,        *)
(*   - the cursor reconciliation task.                                     *)
(* Each group has its own specification over the same variables; the       *)
(* cursor and completion specifications start with the end of bootstrap.   *)
(***************************************************************************)
EXTENDS Integers, Sequences, FiniteSets

VARIABLES
  gridW,            \* this.gridW
  gridH,            \* this.gridH
  grid,             \* this.grid: function 0..gridW*gridH-1 -> Cell
  lastOp,           \* history: the grid operation applied last, with its arguments
  prevGrid,         \* history: [w, h, cells] before the operation applied last
  renderRequested,  \* a requestRender() of this component the host has not served yet
  unflushed,        \* history: redraw events were applied since the last flush event
  painted,          \* history: what the last renderSelf() read
  boundBufferId,    \* this.boundBufferId (0 for null)
  bufLines,         \* the lines of the bound remote buffer
  lastSet,          \* history: the text of the last setValue, while nothing else wrote
  lastGot,          \* history: the result of the last getValue, while nothing wrote since
  ready,            \* bootstrap has run to its end (onReady was called)
  cursorRow,        \* this.cursorRow
  cursorCol,        \* this.cursorCol
  cursorGrid,       \* this.cursorGrid
  lastKnownCursor,  \* this.lastKnownCursor: [line, col, row, grid]
  cursorSyncPending,   \* this.cursorSyncPending: <<>> for null, or <<[row, col, grid]>>
  cursorSyncInFlight,  \* this.cursorSyncInFlight
  cursorTasks,      \* the running flushCursorSync() calls, each awaiting one round trip
  completionEnabled,        \* this.completionEnabled: the popup-menu extension is active
  shownCompletionItems,     \* this.shownCompletionItems
  popupmenuVisible,         \* this.popupmenuVisible
  popupmenuItems,           \* this.popupmenuItems
  popupmenuSelected,        \* this.popupmenuSelected
  hideCompletionRequested,  \* this.hideCompletionRequested
  pendingConfirmIndex,      \* this.pendingConfirmIndex: <<>> for null, or <<index>>
  api,              \* the completion API call in progress and the await it is at
  fromRemote,       \* responses and redraw notifications on their way to the client
  remoteVisible,    \* the editor shows its popup menu
  apiCalls,         \* history: the API calls and keys of the host, in order
  callbacks,        \* history: the completion callbacks, in order
  otherLines,       \* the lines of a second buffer of the editor, <<>> while it has none
  lastKnownChangedtick,  \* this.lastKnownChangedtick: <<>> for undefined, or <<tick>>
  readBacks,        \* the emitOnChange() calls awaiting buffer.lines
  onChanges,        \* history: the onChange callbacks, in order
  lastNote,         \* history: the buffer notification handled last
  currentVimMode,   \* this.currentVimMode
  modeEvents,       \* history: the mode_change calls handled and what each emitted
  shuttingDown,     \* this.shuttingDown
  shutPc,           \* the await the running shutdown() is at
  shutSteps,        \* history: the shutdown steps attempted and how each ended
  processKilled,    \* this.nvimProcess.killed
  processAlive,     \* the editor process runs
  exitRequested,    \* the editor got a quit command or a signal
  shutdownCalls,    \* history: the number of shutdown() calls
  bootPc,           \* the await bootstrap() is at, "done" once it returned, "failed" once it threw
  optionValue,      \* this.options.value: <<>> for undefined, or <<text>>
  attached,         \* the editor has accepted the UI attach request
  onReadyLog,       \* history: what held at each onReady call
  waiting,          \* the getValue()/setValue() calls at `await this.bootPromise`
  valueCalls,       \* history: the getValue()/setValue() calls that went through that await
  hlTable,         \* this.hl: highlight id -> [fg, bg, attr], fg and bg <<>> for undefined
  defaultFg,        \* this.defaultFg
  defaultBg,        \* this.defaultBg
  lastDefaults,     \* history: the last call of the last default_colors_set event
  lastHlDef,        \* history: the last definition of the last hl_attr_define event
  lastKey,          \* history: <<>>, or the key handleKeyPress got last and what it did
  cursorEvents,     \* history: the number of grid_cursor_goto calls handled
  fetchedSinceEvent,  \* history: a round trip was started after the last grid_cursor_goto
  modeInfo,         \* this.modeInfo
  redrawRaised,     \* history: applyRedrawEvents threw while handling the last notification
  lastBatch,        \* history: the events of the last redraw notification
  batchStart,       \* history: the grid and mode table that notification found
  resizeCalls,      \* the running onResize() calls and the await each is at
  resizeLog,        \* history: how each onResize() call went
  tickTexts,        \* history: the text of the bound buffer after each change the editor made, by changedtick
  bufferListeners   \* the events of the bound buffer whose listener is registered and not stopped

gridVars == <<gridW, gridH, grid, lastOp, prevGrid>>
paintVars == <<renderRequested, unflushed, painted>>

bufVars == <<boundBufferId, bufLines, lastSet, lastGot>>

cursorVars == <<ready, cursorRow, cursorCol, cursorGrid, lastKnownCursor,
                cursorSyncPending, cursorSyncInFlight, cursorTasks>>

completionVars == <<completionEnabled, shownCompletionItems, popupmenuVisible,
                    popupmenuItems, popupmenuSelected, hideCompletionRequested,
                    pendingConfirmIndex, api, fromRemote, remoteVisible, apiCalls,
                    callbacks>>

noteVars == <<otherLines, lastKnownChangedtick, readBacks, onChanges, lastNote>>

modeVars == <<currentVimMode, modeEvents>>

shutVars == <<shuttingDown, shutPc, shutSteps, processKilled, processAlive,
              exitRequested, shutdownCalls>>

bootVars == <<bootPc, optionValue, attached, onReadyLog, waiting, valueCalls>>

hlVars == <<hlTable, defaultFg, defaultBg, lastDefaults, lastHlDef>>

keyVars == <<lastKey>>

syncVars == <<cursorEvents, fetchedSinceEvent>>

rawVars == <<modeInfo, redrawRaised, lastBatch, batchStart>>

hostVars == <<resizeCalls, resizeLog>>

tickVars == <<tickTexts>>

listenVars == <<bufferListeners>>

extVars == <<noteVars, modeVars, shutVars, bootVars, hlVars, keyVars, syncVars, rawVars, hostVars, tickVars, listenVars>>

\* What the actions of one group leave alone.
coreVars == <<gridVars, paintVars, bufVars, cursorVars, completionVars>>
notesRest == <<coreVars, modeVars, shutVars, bootVars, hlVars, keyVars, syncVars, rawVars, hostVars, tickVars, listenVars>>
modeRest == <<coreVars, noteVars, shutVars, bootVars, hlVars, keyVars, syncVars, rawVars, hostVars, tickVars, listenVars>>
shutRest == <<coreVars, noteVars, modeVars, bootVars, hlVars, keyVars, syncVars, rawVars, hostVars, tickVars, listenVars>>
bootRest == <<noteVars, modeVars, shutVars, hlVars, keyVars, syncVars, rawVars, hostVars, tickVars, listenVars>>
hlRest == <<noteVars, modeVars, shutVars, bootVars, keyVars, syncVars, rawVars, hostVars, tickVars, listenVars>>
keyRest == <<noteVars, modeVars, shutVars, bootVars, hlVars, syncVars, rawVars, hostVars, tickVars, listenVars>>
syncRest == <<noteVars, modeVars, shutVars, bootVars, hlVars, keyVars, rawVars, hostVars, tickVars, listenVars>>
rawRest == <<noteVars, modeVars, shutVars, bootVars, hlVars, keyVars, syncVars, hostVars, tickVars, listenVars>>
hostRest == <<noteVars, modeVars, shutVars, bootVars, hlVars, keyVars, syncVars, rawVars, tickVars, listenVars>>
tickRest == <<noteVars, modeVars, shutVars, bootVars, hlVars, keyVars, syncVars, rawVars, hostVars, listenVars>>
listenRest == <<noteVars, modeVars, shutVars, bootVars, hlVars, keyVars, syncVars, rawVars, hostVars, tickVars>>

vars == <<gridVars, paintVars, bufVars, cursorVars, completionVars, extVars>>

-----------------------------------------------------------------------------
(* Bounds *)

MaxW == 2
MaxH == 2
MaxDelta == 1
MaxBatch == 2
MaxTextLen == 3
MaxCursor == 1
MaxCalls == 3
MaxTick == 1
MaxNotes == 2
MaxModeEvents == 3
MaxShutdownCalls == 2
MaxCursorEvents == 3

-----------------------------------------------------------------------------
(* Helpers *)

Min(a, b) == IF a <= b THEN a ELSE b
Max(a, b) == IF a >= b THEN a ELSE b

\* nvim.ts clamp(n, min, max)
clamp(n, lo, hi) == Min(hi, Max(lo, n))

\* { ch: " ", hl: 0 }
Blank == [ch |-> " ", hl |-> 0]

\* The cell values the line writes of this model produce.
Inked == [ch |-> "x", hl |-> 1]

\* this.grid[idx], where a missing element reads as undefined: the code
\* guards every access with `if (cell)`.
HasCell(g, idx) == idx \in DOMAIN g

-----------------------------------------------------------------------------
(* Grid operations *)

\* resizeGrid with the old index computed with the new stride: the bug the
\* overlap rule excludes.
resizeGrid_NewStride(g, gw, gh, w, h) ==
  LET newW == Max(0, w)
      newH == Max(0, h)
      copyH == Min(gh, newH)
      copyW == Min(gw, newW)
  IN [w |-> newW,
      h |-> newH,
      cells |-> [i \in 0..(newW * newH - 1) |->
                   LET y == i \div newW
                       x == i % newW
                       oldIdx == y * newW + x
                   IN IF y < copyH /\ x < copyW /\ HasCell(g, oldIdx)
                        THEN g[oldIdx]
                        ELSE Blank]]

\* resizeGrid(w, h): a new blank grid, then the copy of the overlap.
resizeGrid(g, gw, gh, w, h) ==
  LET newW == Max(0, w)
      newH == Max(0, h)
      copyH == Min(gh, newH)
      copyW == Min(gw, newW)
  IN [w |-> newW,
      h |-> newH,
      cells |-> [i \in 0..(newW * newH - 1) |->
                   LET y == i \div newW
                       x == i % newW
                       oldIdx == y * gw + x
                   IN IF y < copyH /\ x < copyW /\ HasCell(g, oldIdx)
                        THEN g[oldIdx]
                        ELSE Blank]]

\* clearGrid blanking the characters and keeping the highlight ids.
clearGrid_KeepHl(g) == [i \in DOMAIN g |-> [ch |-> " ", hl |-> g[i].hl]]

\* clearGrid()
clearGrid(g) == [i \in DOMAIN g |-> Blank]

\* One iteration of the body of scrollGrid's double loop, without the blanking of
\* the source cell.
scrollCell_NoClear(g, gw, p, k) ==
  LET y == k \div p.w
      x == k % p.w
      idx == (p.t + y) * gw + (p.l + x)
      saved == IF HasCell(g, idx) THEN g[idx] ELSE Blank
      destY == y - p.rows
      destX == x - p.cols
      dstIdx == (p.t + destY) * gw + (p.l + destX)
  IN IF destY < 0 \/ destY >= p.h \/ destX < 0 \/ destX >= p.w
       THEN g
       ELSE IF HasCell(g, dstIdx) THEN [g EXCEPT ![dstIdx] = saved] ELSE g

\* One iteration of the body of scrollGrid's double loop, for k = y * w + x:
\* save the cell to tmp, blank it, and write the saved cell to its destination
\* when that lies inside the rectangle.  The grid is mutated in place.
scrollCell(g, gw, p, k) ==
  LET y == k \div p.w
      x == k % p.w
      idx == (p.t + y) * gw + (p.l + x)
      saved == IF HasCell(g, idx) THEN g[idx] ELSE Blank
      g1 == IF HasCell(g, idx) THEN [g EXCEPT ![idx] = Blank] ELSE g
      destY == y - p.rows
      destX == x - p.cols
      dstIdx == (p.t + destY) * gw + (p.l + destX)
  IN IF destY < 0 \/ destY >= p.h \/ destX < 0 \/ destX >= p.w
       THEN g1
       ELSE IF HasCell(g1, dstIdx) THEN [g1 EXCEPT ![dstIdx] = saved] ELSE g1

\* for (y = 0; y < h; y++) for (x = 0; x < w; x++) { ... }
RECURSIVE scrollLoop(_, _, _, _)
scrollLoop(g, gw, p, k) ==
  IF k >= p.w * p.h THEN g
  ELSE scrollLoop(scrollCell(g, gw, p, k), gw, p, k + 1)

\* The rectangle scrollGrid works on: the arguments clamped to the grid.
scrollRect(gw, gh, top, bot, left, right, rows, cols) ==
  LET t == clamp(top, 0, gh)
      b == clamp(bot, 0, gh)
      l == clamp(left, 0, gw)
      r == clamp(right, 0, gw)
  IN [t |-> t, b |-> b, l |-> l, r |-> r, h |-> b - t, w |-> r - l,
      rows |-> rows, cols |-> cols]

\* scrollGrid(top, bot, left, right, rows, cols)
scrollGrid(g, gw, gh, top, bot, left, right, rows, cols) ==
  LET p == scrollRect(gw, gh, top, bot, left, right, rows, cols)
  IN IF gw = 0 \/ gh = 0 THEN g
     ELSE IF p.h <= 0 \/ p.w <= 0 THEN g
     ELSE scrollLoop(g, gw, p, 0)


\* The inner loop without its break at the right edge: the characters run on
\* into the next row.
RECURSIVE lineChars_NoBreak(_, _, _, _, _, _)
lineChars_NoBreak(st, gw, row, chars, hl, i) ==
  IF i > Len(chars) THEN st
  ELSE LET idx == row * gw + st.col
           ch == chars[i]
           written ==
             IF st.col >= 0 /\ HasCell(st.cells, idx)
               THEN [st.cells EXCEPT ![idx] = [ch |-> ch, hl |-> hl]]
               ELSE st.cells
       IN lineChars_NoBreak([cells |-> written, col |-> st.col + 1], gw, row, chars,
                            hl, i + 1)

\* The inner loop of applyGridLine over the characters of one run:
\*   for (const ch of chars) { if (col >= gridW) break; if (col >= 0) write; col++ }
\* st = [cells, col]; i is the index of the next character.
RECURSIVE lineChars(_, _, _, _, _, _)
lineChars(st, gw, row, chars, hl, i) ==
  IF i > Len(chars) THEN st
  ELSE IF st.col >= gw THEN st
  ELSE LET idx == row * gw + st.col
           ch == chars[i]
           written ==
             IF st.col >= 0 /\ HasCell(st.cells, idx)
               THEN [st.cells EXCEPT ![idx] = [ch |-> ch, hl |-> hl]]
               ELSE st.cells
       IN lineChars([cells |-> written, col |-> st.col + 1], gw, row, chars, hl, i + 1)

\* for (let rep = 0; rep < repeat; rep++) { ...characters... }
RECURSIVE lineRepeat(_, _, _, _, _, _, _)
lineRepeat(st, gw, row, chars, hl, rep, repeat) ==
  IF rep >= repeat THEN st
  ELSE lineRepeat(lineChars(st, gw, row, chars, hl, 1), gw, row, chars, hl, rep + 1, repeat)

\* The loop of applyGridLine over the runs [text, hl?, repeat?] of one line.
\* A run is [text |-> sequence of characters, hl |-> <<>> or <<id>>,
\* rep |-> <<>> or <<count>>]; st = [cells, col, hl] with hl the currentHl.
RECURSIVE lineRuns(_, _, _, _, _)
lineRuns(st, gw, row, runs, i) ==
  IF i > Len(runs) THEN st
  ELSE LET run == runs[i]
           currentHl == IF run.hl # <<>> THEN run.hl[1] ELSE st.hl
           repeat == IF run.rep # <<>> THEN run.rep[1] ELSE 1
           after == lineRepeat([cells |-> st.cells, col |-> st.col],
                               gw, row, run.text, currentHl, 0, repeat)
       IN lineRuns([cells |-> after.cells, col |-> after.col, hl |-> currentHl],
                   gw, row, runs, i + 1)

\* applyGridLine(row, colStart, cells)
applyGridLine(g, gw, gh, row, colStart, runs) ==
  IF row < 0 \/ row >= gh THEN g
  ELSE lineRuns([cells |-> g, col |-> colStart, hl |-> 0], gw, row, runs, 1).cells

-----------------------------------------------------------------------------
(* Redraw events.  An event is [name, calls]: the tuple [name, call, call, ...] of
   the redraw notification; a call is the tuple of the event's arguments.  The
   state the grid events work on is s = [w, h, cells, render], render being the
   requestRender() the handler has issued. *)

\* The body of the `for (const call of args)` loop of one grid event.
applyGridCall(s, name, call) ==
  CASE name = "grid_resize" ->
         IF Len(call) < 3 THEN s
         ELSE LET n == resizeGrid(s.cells, s.w, s.h, call[2], call[3])
              IN [s EXCEPT !.w = n.w, !.h = n.h, !.cells = n.cells]
    [] name = "grid_clear" ->
         IF Len(call) < 1 THEN s
         ELSE [s EXCEPT !.cells = clearGrid(s.cells)]
    [] name = "grid_scroll" ->
         IF Len(call) < 7 THEN s
         ELSE [s EXCEPT !.cells = scrollGrid(s.cells, s.w, s.h, call[2], call[3],
                                             call[4], call[5], call[6], call[7])]
    [] name = "grid_line" ->
         IF Len(call) < 4 THEN s
         ELSE [s EXCEPT !.cells = applyGridLine(s.cells, s.w, s.h,
                                                call[2], call[3], call[4])]
    [] OTHER -> s

RECURSIVE applyGridCalls(_, _, _, _)
applyGridCalls(s, name, calls, i) ==
  IF i > Len(calls) THEN s
  ELSE applyGridCalls(applyGridCall(s, name, calls[i]), name, calls, i + 1)

\* The events after whose calls the handler issues this.requestRender().
RenderingEvents ==
  {"default_colors_set", "grid_resize", "grid_clear", "grid_cursor_goto",
   "grid_scroll", "grid_line"}

\* One case of the switch of applyRedrawEvents, for the grid events and flush
\* (`case "flush": break;` and `default: break;` change nothing).
applyGridEvent(s, ev) ==
  LET after == applyGridCalls(s, ev.name, ev.calls, 1)
  IN IF ev.name \in RenderingEvents THEN [after EXCEPT !.render = TRUE] ELSE after


\* for (const ev of events) { switch (name) ... }
RECURSIVE applyGridEvents(_, _, _)
applyGridEvents(s, events, i) ==
  IF i > Len(events) THEN s
  ELSE applyGridEvents(applyGridEvent(s, events[i]), events, i + 1)

\* TRUE when the batch leaves events that no flush of the batch follows.
RECURSIVE endsUnflushed(_, _, _)
endsUnflushed(before, events, i) ==
  IF i > Len(events) THEN before
  ELSE endsUnflushed(events[i].name # "flush", events, i + 1)

GridState == [w |-> gridW, h |-> gridH, cells |-> grid, render |-> renderRequested]

-----------------------------------------------------------------------------
(* Inputs *)

RunX == [text |-> <<"x">>, hl |-> <<1>>, rep |-> <<>>]
RunB == [text |-> <<" ">>, hl |-> <<0>>, rep |-> <<>>]

LineRuns == {<<RunX>>, <<RunB>>, <<RunX, RunB>>, <<RunB, RunX>>, <<RunX, RunX>>}

ResizeEvent(w, h) == [name |-> "grid_resize", calls |-> <<<<1, w, h>>>>]
ClearEvent == [name |-> "grid_clear", calls |-> <<<<1>>>>]
LineEvent(row, col, runs) ==
  [name |-> "grid_line", calls |-> <<<<1, row, col, runs, FALSE>>>>]
ScrollEvent(top, bot, left, right, rows, cols) ==
  [name |-> "grid_scroll", calls |-> <<<<1, top, bot, left, right, rows, cols>>>>]
FlushEvent == [name |-> "flush", calls |-> <<>>]

-----------------------------------------------------------------------------
(* The notification handler, one redraw notification per action *)

\* this.neovimClient.on("notification", ...) for the method "redraw" with the
\* batch `events`: applyRedrawEvents(events).
Redraw(events) ==
  LET after == applyGridEvents(GridState, events, 1)
  IN /\ gridW' = after.w
     /\ gridH' = after.h
     /\ grid' = after.cells
     /\ renderRequested' = after.render
     /\ unflushed' = endsUnflushed(unflushed, events, 1)
     /\ UNCHANGED <<painted, bufVars, cursorVars, completionVars, extVars>>

\* lastOp and prevGrid hold the operation of one notification and the grid it
\* found, until Release drops them: the operations are recorded one at a time,
\* from a state with no recorded operation, so that the histories do not
\* multiply the grids the model visits.
NoOp == [name |-> "none", args |-> <<>>]
NoGrid == [w |-> 0, h |-> 0, cells |-> [i \in {} |-> Blank]]

Recording == lastOp = NoOp

Record(op) ==
  /\ lastOp' = op
  /\ prevGrid' = [w |-> gridW, h |-> gridH, cells |-> grid]

Release ==
  /\ lastOp # NoOp
  /\ lastOp' = NoOp
  /\ prevGrid' = NoGrid
  /\ UNCHANGED <<gridW, gridH, grid, paintVars, bufVars, cursorVars, completionVars, extVars>>

GridResize ==
  /\ Recording
  /\ \E w \in -1..MaxW, h \in -1..MaxH :
    /\ Redraw(<<ResizeEvent(w, h)>>)
    /\ Record([name |-> "grid_resize", args |-> <<w, h>>])

GridClear ==
  /\ Recording
  /\ Redraw(<<ClearEvent>>)
  /\ Record([name |-> "grid_clear", args |-> <<>>])

GridLine ==
  /\ Recording
  /\ \E row \in 0..(MaxH - 1), col \in 0..(MaxW - 1), runs \in LineRuns :
    /\ Redraw(<<LineEvent(row, col, runs)>>)
    /\ Record([name |-> "grid_line", args |-> <<row, col>>])

GridScroll ==
  /\ Recording
  /\ \E top \in 0..MaxH, bot \in 0..MaxH, left \in 0..MaxW, right \in 0..MaxW,
     rows \in (-MaxDelta)..MaxDelta, cols \in {-1, 0, 1} :
    /\ top < bot
    /\ left < right
    /\ Redraw(<<ScrollEvent(top, bot, left, right, rows, cols)>>)
    /\ Record([name |-> "grid_scroll", args |-> <<top, bot, left, right, rows, cols>>])

EmptyGrid == [i \in {} |-> Blank]

InitGrid ==
  /\ gridW = 0
  /\ gridH = 0
  /\ grid = EmptyGrid
  /\ lastOp = NoOp
  /\ prevGrid = NoGrid

InitPaint ==
  /\ renderRequested = FALSE
  /\ unflushed = FALSE
  /\ painted = "none"

\* "a" stands for any character other than carriage return and line feed.
Chars == {"a", "CR", "LF"}

Texts == UNION {[1..n -> Chars] : n \in 0..MaxTextLen}

NoText == [valid |-> FALSE, text |-> <<>>]

InitBuffer ==
  /\ boundBufferId = 0
  /\ bufLines = <<<<>>>>
  /\ lastSet = NoText
  /\ lastGot = NoText

InitCursor ==
  /\ ready = FALSE
  /\ cursorRow = 0
  /\ cursorCol = 0
  /\ cursorGrid = 1
  /\ lastKnownCursor = [line |-> 0, col |-> 0, row |-> 0, grid |-> 1]
  /\ cursorSyncPending = <<>>
  /\ cursorSyncInFlight = FALSE
  /\ cursorTasks = <<>>

NoCall == [op |-> "none"]

InitCompletion ==
  /\ completionEnabled \in BOOLEAN
  /\ shownCompletionItems = <<>>
  /\ popupmenuVisible = FALSE
  /\ popupmenuItems = <<>>
  /\ popupmenuSelected = -1
  /\ hideCompletionRequested = FALSE
  /\ pendingConfirmIndex = <<>>
  /\ api = NoCall
  /\ fromRemote = <<>>
  /\ remoteVisible = FALSE
  /\ apiCalls = <<>>
  /\ callbacks = <<>>

NoNote == [kind |-> "none", buf |-> 0, tick |-> <<>>]

InitNotes ==
  /\ otherLines = <<>>
  /\ lastKnownChangedtick = <<>>
  /\ readBacks = <<>>
  /\ onChanges = <<>>
  /\ lastNote = NoNote

InitMode ==
  /\ currentVimMode = "normal"
  /\ modeEvents = <<>>

InitShutdown ==
  /\ shuttingDown = FALSE
  /\ shutPc = "idle"
  /\ shutSteps = <<>>
  /\ processKilled = FALSE
  /\ processAlive = TRUE
  /\ exitRequested = FALSE
  /\ shutdownCalls = 0

\* The constructor calls bootstrap(), which runs up to its first await; the
\* `value` option is a short text with a line break, one that ends in CR LF, or
\* is left out.
OptionValues == {<<>>, <<<<"a", "LF", "a">>>>, <<<<"a", "CR", "LF">>>>}

InitBoot ==
  /\ bootPc = "attach"
  /\ optionValue \in OptionValues
  /\ attached = FALSE
  /\ onReadyLog = <<>>
  /\ waiting = <<>>
  /\ valueCalls = <<>>

InitHighlight ==
  /\ hlTable = <<>>
  /\ defaultFg = <<255, 255, 255, 255>>
  /\ defaultBg = <<0, 0, 0, 255>>
  /\ lastDefaults = <<>>
  /\ lastHlDef = <<>>

Init ==
  /\ InitGrid
  /\ InitPaint
  /\ InitBuffer
  /\ InitCursor
  /\ InitCompletion
  /\ InitNotes
  /\ InitMode
  /\ InitShutdown
  /\ InitBoot
  /\ InitHighlight
  /\ lastKey = <<>>
  /\ cursorEvents = 0
  /\ fetchedSinceEvent = FALSE
  /\ modeInfo = <<>>
  /\ redrawRaised = FALSE
  /\ lastBatch = <<>>
  /\ batchStart = <<>>
  /\ resizeCalls = <<>>
  /\ resizeLog = <<>>
  /\ tickTexts = <<>>
  /\ bufferListeners = {}

\* The state after construction without the `value` option.
InitNoValue == Init /\ optionValue = <<>>

NextGrid ==
  \/ GridResize
  \/ GridClear
  \/ GridLine
  \/ GridScroll
  \/ Release

\* The grid operations, one redraw event per notification.
SpecGrid == InitNoValue /\ [][NextGrid]_vars

-----------------------------------------------------------------------------
(* Grid properties *)

CellAt(g, gw, x, y) == g[y * gw + x]

\* The copy-then-shift reference: snapshot the rectangle, blank it, write every
\* snapshot cell (y, x) to (y - rows, x - cols) when that lies in the rectangle.
ScrollRef(g, gw, gh, top, bot, left, right, rows, cols) ==
  LET t == Min(gh, Max(0, top))
      b == Min(gh, Max(0, bot))
      l == Min(gw, Max(0, left))
      r == Min(gw, Max(0, right))
      InRect(y, x) == y >= t /\ y < b /\ x >= l /\ x < r
  IN [i \in DOMAIN g |->
        LET y == i \div gw
            x == i % gw
        IN IF ~InRect(y, x) THEN g[i]
           ELSE IF InRect(y + rows, x + cols) THEN CellAt(g, gw, x + cols, y + rows)
           ELSE Blank]

\* C1: after every scroll the grid equals the copy-then-shift reference applied
\* to the grid before the scroll, for every rectangle and every sign of
\* deltaRows and deltaColumns.
C1_ScrollIsCopyThenShift ==
  lastOp.name = "grid_scroll" =>
    grid = ScrollRef(prevGrid.cells, prevGrid.w, prevGrid.h,
                     lastOp.args[1], lastOp.args[2], lastOp.args[3],
                     lastOp.args[4], lastOp.args[5], lastOp.args[6])

\* C2: a resize from (w, h) to (w2, h2) keeps every cell of the overlap
\* [0, min(w, w2)) x [0, min(h, h2)) at its (x, y) and makes every other cell of
\* the new grid blank with highlight id 0.
C2_ResizeKeepsOverlap ==
  lastOp.name = "grid_resize" =>
    /\ gridW = Max(0, lastOp.args[1])
    /\ gridH = Max(0, lastOp.args[2])
    /\ DOMAIN grid = 0..(gridW * gridH - 1)
    /\ \A x \in 0..(gridW - 1), y \in 0..(gridH - 1) :
         CellAt(grid, gridW, x, y) =
           IF x < Min(prevGrid.w, gridW) /\ y < Min(prevGrid.h, gridH)
             THEN CellAt(prevGrid.cells, prevGrid.w, x, y)
             ELSE Blank

\* A resize that changes the width, with an inked cell of the second row in the
\* overlap and a new cell outside it.
C2_Witness ==
  /\ lastOp.name = "grid_resize"
  /\ prevGrid.w # gridW
  /\ prevGrid.h >= 2 /\ gridH >= 2 /\ prevGrid.w >= 1 /\ gridW > prevGrid.w
  /\ CellAt(prevGrid.cells, prevGrid.w, 0, 1) = Inked
  /\ CellAt(grid, gridW, 0, 1) = Inked

\* C3: a scroll up by d > 0 rows with deltaColumns = 0 moves each row r of the
\* rectangle with r >= top + d to row r - d and leaves the last d rows of the
\* rectangle blank with highlight id 0.
C3_ScrollUpMovesRows ==
  (lastOp.name = "grid_scroll" /\ lastOp.args[5] > 0 /\ lastOp.args[6] = 0) =>
    LET d == lastOp.args[5]
        t == Min(gridH, Max(0, lastOp.args[1]))
        b == Min(gridH, Max(0, lastOp.args[2]))
        l == Min(gridW, Max(0, lastOp.args[3]))
        r == Min(gridW, Max(0, lastOp.args[4]))
    IN \A y \in t..(b - 1), x \in l..(r - 1) :
         /\ y >= t + d =>
              CellAt(grid, gridW, x, y - d) = CellAt(prevGrid.cells, gridW, x, y)
         /\ y >= b - d => CellAt(grid, gridW, x, y) = Blank

\* A scroll up by one row of a rectangle of two rows whose second row held an inked
\* cell, now in the first row.
C3_Witness ==
  /\ lastOp.name = "grid_scroll" /\ lastOp.args[5] = 1 /\ lastOp.args[6] = 0
  /\ lastOp.args[1] = 0 /\ lastOp.args[2] = 2 /\ lastOp.args[3] = 0
  /\ gridH = 2 /\ gridW >= 1
  /\ CellAt(prevGrid.cells, gridW, 0, 1) = Inked
  /\ CellAt(prevGrid.cells, gridW, 0, 0) = Blank
  /\ CellAt(grid, gridW, 0, 0) = Inked
  /\ CellAt(grid, gridW, 0, 1) = Blank

-----------------------------------------------------------------------------
(* Redraw batches and repaints *)

\* The events of the batches: two sizes, single-cell line writes, clear, a scroll
\* up of the whole grid, and flush.
RedrawAlphabet ==
  {ResizeEvent(2, 2), ResizeEvent(1, 2), ClearEvent, FlushEvent,
   ScrollEvent(0, 2, 0, 2, 1, 0)}
  \cup {LineEvent(row, col, runs) : row \in {0, 1}, col \in {0, 1},
                                    runs \in {<<RunX>>, <<RunB>>}}

Batches == UNION {[1..n -> RedrawAlphabet] : n \in 1..MaxBatch}

\* One redraw notification carrying a batch of events; the batch may or may not
\* end with flush (a logical update may be split over several notifications).
RedrawBatch ==
  /\ \E events \in Batches : Redraw(events)
  /\ UNCHANGED <<lastOp, prevGrid>>

\* renderSelf(buffer), run by the host after a requestRender(): it reads
\* this.grid as it is, or draws the waiting text while the grid is empty.
RenderSelf ==
  /\ renderRequested
  /\ renderRequested' = FALSE
  /\ painted' = IF gridW = 0 \/ gridH = 0 THEN "waiting"
                ELSE IF unflushed THEN "unflushed" ELSE "flushed"
  /\ UNCHANGED <<gridVars, unflushed, bufVars, cursorVars, completionVars, extVars>>

NextRedraw ==
  \/ RedrawBatch
  \/ RenderSelf

\* Redraw notifications interleaved with the host's repaints.
SpecRedraw == InitNoValue /\ [][NextRedraw]_vars

\* C10: every grid the host paints is the state right after a flush event: no
\* repaint reads a grid changed by events that no flush has followed yet.
C10_PaintsOnlyFlushedGrid == painted # "unflushed"

-----------------------------------------------------------------------------
(* Buffer text: getValue / setValue *)

\* text.replace(/\r\n/g, "\n"): a scan from the left that replaces each CR LF pair.
RECURSIVE replaceCrlf_Off(_, _)
replaceCrlf_Off(text, i) ==
  IF i > Len(text) THEN <<>>
  ELSE <<text[i]>> \o replaceCrlf_Off(text, i + 1)

RECURSIVE replaceCrlf(_, _)
replaceCrlf(text, i) ==
  IF i > Len(text) THEN <<>>
  ELSE IF text[i] = "CR" /\ i < Len(text) /\ text[i + 1] = "LF"
    THEN <<"LF">> \o replaceCrlf(text, i + 2)
    ELSE <<text[i]>> \o replaceCrlf(text, i + 1)

\* text.split("\n"): the pieces between the line feeds, at least one piece.
\* `line` is the piece being collected.
RECURSIVE splitLf(_, _, _)
splitLf(text, i, line) ==
  IF i > Len(text) THEN <<line>>
  ELSE IF text[i] = "LF" THEN <<line>> \o splitLf(text, i + 1, <<>>)
  ELSE splitLf(text, i + 1, Append(line, text[i]))

\* toBufferLines(text)
toBufferLines(text) == splitLf(replaceCrlf(text, 1), 1, <<>>)

\* lines.join("\n")
RECURSIVE joinLf(_, _)
joinLf(lines, i) ==
  IF i > Len(lines) THEN <<>>
  ELSE IF i = Len(lines) THEN lines[i]
  ELSE lines[i] \o <<"LF">> \o joinLf(lines, i + 1)

\* bootstrap() up to the end of `await this.neovimClient.uiAttach(...)`: the
\* editor accepts the attach request.
UiAttach ==
  /\ bootPc = "attach"
  /\ attached' = TRUE
  /\ bootPc' = "bind"
  /\ UNCHANGED <<coreVars, bootRest, optionValue, onReadyLog, waiting, valueCalls>>

\* bindToFirstBuffer(), the step of bootstrap that sets boundBuffer: the first
\* buffer of the remote has id 1.
BindToFirstBuffer ==
  /\ bootPc = "bind"
  /\ boundBufferId = 0
  /\ boundBufferId' = 1
  /\ bufferListeners' = {"lines", "changedtick", "detach"}
  /\ bootPc' = "value"
  /\ UNCHANGED <<bufLines, lastSet, lastGot, gridVars, paintVars, cursorVars,
               completionVars, noteVars, modeVars, shutVars, hlVars, keyVars,
               syncVars, rawVars, hostVars, tickVars, optionValue, attached,
               onReadyLog, waiting, valueCalls>>

\* What the buffer holds after the `value` step of bootstrap.
initialLines_Keep(value, bound, lines) == lines

\* `if (typeof this.options.value === "string" && this.boundBuffer)
\*    await this.writeBufferValue(this.boundBuffer, this.options.value)`
initialLines(value, bound, lines) ==
  IF value # <<>> /\ bound # 0 THEN toBufferLines(value[1]) ELSE lines

\* bootstrap() from the binding to the mode request: applyEditorOptions() and
\* applyColorOverrides() swallow their failures and touch nothing modelled; then
\* the `value` option, when given, replaces the lines of the bound buffer.
WriteInitialValue ==
  /\ bootPc = "value"
  /\ bufLines' = initialLines(optionValue, boundBufferId, bufLines)
  /\ bootPc' = "mode"
  /\ UNCHANGED <<boundBufferId, lastSet, lastGot, gridVars, paintVars, cursorVars,
                 completionVars, bootRest, optionValue, attached, onReadyLog,
                 waiting, valueCalls>>

\* setValue(text): `await this.bootPromise` has passed, requireBoundBuffer(), then
\* writeBufferValue: the remote
\* replaces the whole line range (start 0, end -1) by toBufferLines(text).
SetValue ==
  /\ bootPc = "done"
  /\ boundBufferId # 0
  /\ \E text \in Texts :
       /\ bufLines' = toBufferLines(text)
       /\ lastSet' = [valid |-> TRUE, text |-> text]
  /\ lastGot' = NoText
  /\ UNCHANGED <<boundBufferId, gridVars, paintVars, cursorVars,
               completionVars, extVars>>

\* getValue(): requireBoundBuffer(), then readBufferValue: all lines, joined.
GetValue ==
  /\ bootPc = "done"
  /\ boundBufferId # 0
  /\ lastGot' = [valid |-> TRUE, text |-> joinLf(bufLines, 1)]
  /\ UNCHANGED <<boundBufferId, bufLines, lastSet, gridVars, paintVars, cursorVars,
               completionVars, extVars>>

\* The editor changes the buffer on its own (typed input): a line is added at the
\* end or the last line is removed.
RemoteEdit ==
  /\ \/ /\ Len(bufLines) <= MaxTextLen
        /\ bufLines' = Append(bufLines, <<"a">>)
     \/ /\ Len(bufLines) > 1
        /\ bufLines' = SubSeq(bufLines, 1, Len(bufLines) - 1)
  /\ lastSet' = NoText
  /\ lastGot' = NoText
  /\ UNCHANGED <<boundBufferId, gridVars, paintVars, cursorVars,
               completionVars, extVars>>

\* The text without every carriage return that a line feed follows.
RECURSIVE DropCrBeforeLf(_, _)
DropCrBeforeLf(text, n) ==
  IF n = 0 THEN <<>>
  ELSE LET head == DropCrBeforeLf(text, n - 1)
       IN IF text[n] = "CR" /\ n < Len(text) /\ text[n + 1] = "LF"
            THEN head
            ELSE Append(head, text[n])

\* C4: getValue() right after setValue(T) returns T when T holds no carriage
\* return, and in general T with each CR LF pair replaced by LF.
C4_SetGetRoundTrip ==
  (lastSet.valid /\ lastGot.valid) =>
    /\ (\A i \in 1..Len(lastSet.text) : lastSet.text[i] # "CR") =>
         lastGot.text = lastSet.text
    /\ lastGot.text = DropCrBeforeLf(lastSet.text, Len(lastSet.text))

\* A three-character text with a CR LF pair was set and read back one character
\* shorter.
C4_Witness ==
  /\ lastSet.valid /\ lastGot.valid
  /\ \E i \in 1..(Len(lastSet.text) - 1) :
       lastSet.text[i] = "CR" /\ lastSet.text[i + 1] = "LF"
  /\ Len(lastGot.text) = Len(lastSet.text) - 1
  /\ Len(lastSet.text) = 3

-----------------------------------------------------------------------------
(* Cursor reconciliation: queueCursorSync / flushCursorSync *)

\* The reconciliation state the two functions work on.
SyncState ==
  [pending |-> cursorSyncPending, inFlight |-> cursorSyncInFlight,
   tasks |-> cursorTasks, known |-> lastKnownCursor]

RemoveAt(seq, i) == SubSeq(seq, 1, i - 1) \o SubSeq(seq, i + 1, Len(seq))

\* The head of the loop of flushCursorSync, run by a task that is not awaiting:
\*   while (this.cursorSyncPending) { pending = ...; this.cursorSyncPending = null;
\*     await this.neovimClient.window ...  }
\*   this.cursorSyncInFlight = false;
\* The task takes the slot and waits for the window, or ends.
flushLoopHead(st) ==
  IF st.pending # <<>>
    THEN [st EXCEPT !.pending = <<>>,
                    !.tasks = Append(st.tasks, [pc |-> "window", pending |-> st.pending[1]])]
    ELSE [st EXCEPT !.inFlight = FALSE]

\* queueCursorSync that starts a flush task whether or not one is running.
queueCursorSync_NoGuard(st, slot) ==
  flushLoopHead([st EXCEPT !.pending = <<slot>>, !.inFlight = TRUE])

\* queueCursorSync(row, col, grid) with the slot value already resolved: write
\* the slot; start flushCursorSync() unless one is in flight.
queueCursorSync(st, slot) ==
  LET queued == [st EXCEPT !.pending = <<slot>>]
  IN IF st.inFlight THEN queued
     ELSE flushLoopHead([queued EXCEPT !.inFlight = TRUE])

SetSyncState(st) ==
  /\ cursorSyncPending' = st.pending
  /\ cursorSyncInFlight' = st.inFlight
  /\ cursorTasks' = st.tasks
  /\ lastKnownCursor' = st.known

\* applyRedrawEvents, case "grid_cursor_goto" with one call [grid, row, col].
GridCursorGoto ==
  /\ cursorEvents < MaxCursorEvents
  /\ \E row \in 0..MaxCursor, col \in 0..MaxCursor :
       LET g == 1
           known == [line |-> row, col |-> col, row |-> row, grid |-> g]
           after == queueCursorSync([SyncState EXCEPT !.known = known],
                                    [row |-> row, col |-> col, grid |-> g])
       IN /\ cursorRow' = row
          /\ cursorCol' = col
          /\ cursorGrid' = g
          /\ SetSyncState(after)
          /\ fetchedSinceEvent' = (after.pending = <<>>)
  /\ cursorEvents' = cursorEvents + 1
  /\ renderRequested' = TRUE
  /\ unflushed' = TRUE
  /\ UNCHANGED <<ready, gridVars, painted, bufVars, completionVars, syncRest>>

\* The end of bootstrap(), in the turn that handles the answer of the mode
\* request: this.queueCursorSync() without arguments, then onReady, and
\* bootstrap() returns.
BootstrapEnd ==
  /\ ready' = TRUE
  /\ bootPc' = "done"
  /\ onReadyLog' = Append(onReadyLog, [attached |-> attached,
                                        bound |-> boundBufferId # 0,
                                        text |-> joinLf(bufLines, 1)])
  /\ SetSyncState(queueCursorSync(SyncState,
                                  [row |-> lastKnownCursor.row,
                                   col |-> lastKnownCursor.col,
                                   grid |-> lastKnownCursor.grid]))
  /\ UNCHANGED <<cursorRow, cursorCol, cursorGrid, gridVars, paintVars, bufVars,
                 completionVars, noteVars, modeEvents, shutVars, hlVars, keyVars,
                 syncVars, rawVars, hostVars, tickVars, listenVars, optionValue, attached,
                 waiting, valueCalls>>

\* The short mode names the editor may answer the mode request of bootstrap()
\* with.
BootModes == {"n", "i"}

\* `const mode = await this.neovimClient.mode` answers {mode}: the name is
\* assigned to currentVimMode without a callback, and bootstrap() runs to its
\* end.
BootstrapMode ==
  /\ bootPc = "mode"
  /\ \E mode \in BootModes : currentVimMode' = mode
  /\ BootstrapEnd

\* The mode request is answered by an editor that has just started: normal
\* mode.
BootstrapModeNormal ==
  /\ BootstrapMode
  /\ currentVimMode' = "n"

\* `await this.neovimClient.mode` rejects: the catch block ignores it and
\* bootstrap() runs to its end.
BootstrapModeFails ==
  /\ bootPc = "mode"
  /\ currentVimMode' = currentVimMode
  /\ BootstrapEnd

\* `await this.neovimClient.window` of task i resolves: the task issues
\* `await window.cursor`.
CursorWindowResolves ==
  \E i \in 1..Len(cursorTasks) :
    /\ cursorTasks[i].pc = "window"
    /\ cursorTasks' = [cursorTasks EXCEPT ![i].pc = "cursor"]
    /\ UNCHANGED <<ready, cursorRow, cursorCol, cursorGrid, lastKnownCursor,
                   cursorSyncPending, cursorSyncInFlight, gridVars, paintVars, bufVars,
                   completionVars, extVars>>

\* `await window.cursor` of task i resolves with [line, col]: the task stores the
\* authoritative cursor with the row and grid of the slot it took, calls
\* onCursorChange, and goes back to the head of the loop.
CursorFetchResolves ==
  \E i \in 1..Len(cursorTasks), line \in 1..(MaxCursor + 1), col \in 0..MaxCursor :
    /\ cursorTasks[i].pc = "cursor"
    /\ LET known == [line |-> Max(0, line - 1), col |-> Max(0, col),
                     row |-> cursorTasks[i].pending.row,
                     grid |-> cursorTasks[i].pending.grid]
       IN SetSyncState(flushLoopHead([SyncState EXCEPT
                                        !.tasks = RemoveAt(cursorTasks, i),
                                        !.known = known]))
    /\ fetchedSinceEvent' = (fetchedSinceEvent \/ cursorSyncPending # <<>>)
    /\ UNCHANGED <<ready, cursorRow, cursorCol, cursorGrid, gridVars, paintVars, bufVars,
                   completionVars, cursorEvents, syncRest>>

\* A rejection that ends the task without returning to the head of the loop.
CursorFetchRejects_EndsTask ==
  \E i \in 1..Len(cursorTasks) :
    /\ SetSyncState([SyncState EXCEPT !.tasks = RemoveAt(cursorTasks, i),
                                      !.inFlight = FALSE])
    /\ UNCHANGED <<ready, cursorRow, cursorCol, cursorGrid, gridVars, paintVars, bufVars,
                   completionVars, syncVars, syncRest>>

\* Either await of task i rejects: the catch keeps the redraw-derived cursor and
\* the task goes back to the head of the loop.
CursorFetchRejects ==
  \E i \in 1..Len(cursorTasks) :
    /\ SetSyncState(flushLoopHead([SyncState EXCEPT !.tasks = RemoveAt(cursorTasks, i)]))
    /\ fetchedSinceEvent' = (fetchedSinceEvent \/ cursorSyncPending # <<>>)
    /\ UNCHANGED <<ready, cursorRow, cursorCol, cursorGrid, gridVars, paintVars, bufVars,
                   completionVars, cursorEvents, syncRest>>

NextBuffer ==
  \/ UiAttach
  \/ BindToFirstBuffer
  \/ WriteInitialValue
  \/ BootstrapMode
  \/ SetValue
  \/ GetValue
  \/ RemoteEdit

\* The text API against the bound buffer.
SpecBuffer == InitNoValue /\ [][NextBuffer]_vars

NextCursor ==
  \/ UiAttach
  \/ BindToFirstBuffer
  \/ WriteInitialValue
  \/ BootstrapMode
  \/ GridCursorGoto
  \/ CursorWindowResolves
  \/ CursorFetchResolves
  \/ CursorFetchRejects

\* Cursor events and the reconciliation task.
SpecCursor == InitNoValue /\ [][NextCursor]_vars

\* C9: at most one round trip of the reconciliation task is in flight at any
\* moment: there is never a second flush task, a task runs exactly while
\* cursorSyncInFlight is set, and a filled slot always has a task to drain it.
C9_OneCursorRoundTrip ==
  /\ Len(cursorTasks) <= 1
  /\ cursorSyncInFlight <=> (Len(cursorTasks) = 1)
  /\ cursorSyncPending # <<>> => Len(cursorTasks) = 1

\* An event arrived during a round trip: the slot holds a position other than the
\* one the running task took.
C9_Witness ==
  /\ Len(cursorTasks) = 1
  /\ cursorTasks[1].pc = "cursor"
  /\ cursorSyncPending # <<>>
  /\ cursorSyncPending[1].row # cursorTasks[1].pending.row

-----------------------------------------------------------------------------
(* Completion: the API calls, the popupmenu_* events and the editor's popup *)

ItemLists == {<<"a">>, <<"b", "c">>}

\* The completion fields of the component and the callbacks emitted so far.
CompletionState ==
  [shown |-> shownCompletionItems, visible |-> popupmenuVisible,
   items |-> popupmenuItems, selected |-> popupmenuSelected,
   hideRequested |-> hideCompletionRequested, pending |-> pendingConfirmIndex,
   log |-> callbacks]

SetCompletionState(st) ==
  /\ shownCompletionItems' = st.shown
  /\ popupmenuVisible' = st.visible
  /\ popupmenuItems' = st.items
  /\ popupmenuSelected' = st.selected
  /\ hideCompletionRequested' = st.hideRequested
  /\ pendingConfirmIndex' = st.pending
  /\ callbacks' = st.log

\* A callback of options.completion: its type, the index it carries (-1 where it
\* carries none), whether an API call or a redraw event emitted it, and the
\* call that caused it.
Emit(st, type, index, via, cause) ==
  [st EXCEPT !.log = Append(@, [type |-> type, index |-> index, via |-> via,
                                cause |-> cause])]

\* getCompletionItem(index): <<>> for null. Indexes of the source are 0-based.
getCompletionItem(st, index) ==
  IF index < 0 THEN <<>>
  ELSE IF index + 1 \in DOMAIN st.items THEN <<st.items[index + 1]>>
  ELSE IF index + 1 \in DOMAIN st.shown THEN <<st.shown[index + 1]>>
  ELSE <<>>

\* normalizePopupmenuItem(raw, index) for the array form [abbr, kind, menu, info]:
\* the word of the item shown at that index, else the abbr sent by the editor.
normalizePopupmenuItem(st, raw, index) ==
  IF index + 1 \in DOMAIN st.shown THEN st.shown[index + 1] ELSE raw

\* applyRedrawEvents, case "popupmenu_show", one call [items, selected, ...].
popupmenuShow(st, enabled, ev) ==
  LET mirrored == [st EXCEPT
                     !.visible = TRUE,
                     !.selected = ev.selected,
                     !.items = [i \in DOMAIN ev.items |->
                                  normalizePopupmenuItem(st, ev.items[i], i - 1)],
                     !.hideRequested = FALSE,
                     !.pending = <<>>]
      shown == Emit(mirrored, "show", ev.selected, "event", ev.origin)
  IN IF ~enabled THEN mirrored
     ELSE IF ev.selected >= 0
       THEN Emit(shown, "select", ev.selected, "event", ev.origin)
       ELSE shown

\* applyRedrawEvents, case "popupmenu_select", one call [selected].
popupmenuSelect(st, enabled, ev) ==
  LET mirrored == [st EXCEPT !.selected = ev.selected]
  IN IF enabled THEN Emit(mirrored, "select", ev.selected, "event", ev.origin)
     ELSE mirrored

\* The popupmenu_hide handler with the two callbacks in the other order.
popupmenuHide_HideFirst(st, enabled, ev) ==
  LET confirmIndex == IF st.pending # <<>> THEN st.pending[1] ELSE st.selected
      confirmItem == getCompletionItem(st, confirmIndex)
      shouldEmitConfirm == /\ enabled
                           /\ ~st.hideRequested
                           /\ confirmIndex >= 0
                           /\ confirmItem # <<>>
      hidden == [st EXCEPT !.visible = FALSE, !.selected = -1, !.items = <<>>,
                           !.pending = <<>>, !.hideRequested = FALSE]
      first == IF enabled THEN Emit(hidden, "hide", -1, "event", ev.origin)
               ELSE hidden
  IN IF shouldEmitConfirm
       THEN Emit(first, "confirm", confirmIndex, "event", ev.origin)
       ELSE first

\* The popupmenu_hide handler confirming also after a client hide request.
popupmenuHide_IgnoreRequest(st, enabled, ev) ==
  LET confirmIndex == IF st.pending # <<>> THEN st.pending[1] ELSE st.selected
      confirmItem == getCompletionItem(st, confirmIndex)
      shouldEmitConfirm == /\ enabled
                           /\ confirmIndex >= 0
                           /\ confirmItem # <<>>
      hidden == [st EXCEPT !.visible = FALSE, !.selected = -1, !.items = <<>>,
                           !.pending = <<>>, !.hideRequested = FALSE]
      confirmed == IF shouldEmitConfirm
                     THEN Emit(hidden, "confirm", confirmIndex, "event", ev.origin)
                     ELSE hidden
  IN IF enabled THEN Emit(confirmed, "hide", -1, "event", ev.origin)
     ELSE confirmed

\* applyRedrawEvents, case "popupmenu_hide".
popupmenuHide(st, enabled, ev) ==
  LET confirmIndex == IF st.pending # <<>> THEN st.pending[1] ELSE st.selected
      confirmItem == getCompletionItem(st, confirmIndex)
      shouldEmitConfirm == /\ enabled
                           /\ ~st.hideRequested
                           /\ confirmIndex >= 0
                           /\ confirmItem # <<>>
      hidden == [st EXCEPT !.visible = FALSE, !.selected = -1, !.items = <<>>,
                           !.pending = <<>>, !.hideRequested = FALSE]
      confirmed == IF shouldEmitConfirm
                     THEN Emit(hidden, "confirm", confirmIndex, "event", ev.origin)
                     ELSE hidden
  IN IF enabled THEN Emit(confirmed, "hide", -1, "event", ev.origin)
     ELSE confirmed

\* showCompletion up to its first request: items and flags are stored.
showCompletionStart(st, items) ==
  [st EXCEPT !.shown = items, !.hideRequested = FALSE, !.pending = <<>>]

\* The end of showCompletion emitting its show callback in both configurations.
showCompletionDone_Always(st, enabled, selected) ==
  Emit(st, "show", IF selected # <<>> THEN selected[1] ELSE -1, "api", "showCompletion")

\* The end of showCompletion: without the extension the call emits show itself.
showCompletionDone(st, enabled, selected) ==
  IF ~enabled
    THEN Emit(st, "show", IF selected # <<>> THEN selected[1] ELSE -1, "api",
              "showCompletion")
    ELSE st

\* hideCompletion up to its request.
hideCompletionStart(st) ==
  [st EXCEPT !.hideRequested = TRUE, !.pending = <<>>]

\* The end of hideCompletion emitting its hide callback in both configurations.
hideCompletionDone_Always(st, enabled) ==
  Emit(st, "hide", -1, "api", "hideCompletion")

\* The end of hideCompletion.
hideCompletionDone(st, enabled) ==
  IF ~enabled THEN Emit(st, "hide", -1, "api", "hideCompletion") ELSE st

\* selectCompletion up to its request.
selectCompletionStart(st, index, finish) ==
  [st EXCEPT !.pending = IF finish THEN <<index>> ELSE <<>>]

\* The end of selectCompletion: without the extension the call emits select and,
\* for a finishing call on an existing item, confirm.
selectCompletionDone(st, enabled, index, finish) ==
  LET item == getCompletionItem(st, index)
      selected == Emit(st, "select", index, "api", "selectCompletion")
  IN IF enabled THEN st
     ELSE IF finish /\ item # <<>>
       THEN Emit(selected, "confirm", index, "api", "selectCompletion")
       ELSE selected

\* Messages from the editor: the response to a request, and the popup events.
Resp == [kind |-> "resp", items |-> <<>>, selected |-> -1, origin |-> "none"]
ShowMsg(items, selected, origin) ==
  [kind |-> "show", items |-> items, selected |-> selected, origin |-> origin]
SelectMsg(selected, origin) ==
  [kind |-> "select", items |-> <<>>, selected |-> selected, origin |-> origin]
HideMsg(origin) ==
  [kind |-> "hide", items |-> <<>>, selected |-> -1, origin |-> origin]

\* Requests to the editor.
CompleteReq(items, origin) ==
  [kind |-> "complete", items |-> items, item |-> -1, finish |-> FALSE, origin |-> origin]
SelectReq(item, finish, origin) ==
  [kind |-> "select", items |-> <<>>, item |-> item, finish |-> finish, origin |-> origin]
KeyReq == [kind |-> "key", items |-> <<>>, item |-> -1, finish |-> FALSE, origin |-> "key"]
\* The two reads of getCurrentBufferColumn: the current window, then its cursor.
ColumnReq ==
  [kind |-> "column", items |-> <<>>, item |-> -1, finish |-> FALSE,
   origin |-> "showCompletion"]

\* The editor handles one request: what it shows afterwards and what it sends.
\* A request is answered first and its redraw events follow with the next screen
\* update. complete() opens the popup with `initial` selected (0, or -1 under
\* completeopt=noselect); nvim_select_popupmenu_item is ignored without a popup,
\* and a finishing select closes the popup, with or without a popupmenu_select
\* before the popupmenu_hide; an accepting key closes the popup. Popup events
\* are sent only to a UI attached with ext_popupmenu.
remoteRequest(visible, ext, req, initial, withSelect) ==
  LET events(evs) == IF ext THEN evs ELSE <<>>
  IN CASE req.kind = "complete" ->
            [visible |-> TRUE,
             out |-> <<Resp>> \o events(<<ShowMsg(req.items, initial, req.origin)>>)]
       [] req.kind = "select" /\ ~visible ->
            [visible |-> FALSE, out |-> <<Resp>>]
       [] req.kind = "select" /\ visible /\ ~req.finish ->
            [visible |-> TRUE,
             out |-> <<Resp>> \o events(<<SelectMsg(req.item, req.origin)>>)]
       [] req.kind = "select" /\ visible /\ req.finish ->
            [visible |-> FALSE,
             out |-> <<Resp>>
                     \o events(IF withSelect THEN <<SelectMsg(req.item, req.origin)>>
                               ELSE <<>>)
                     \o events(<<HideMsg(req.origin)>>)]
       [] req.kind = "key" ->
            [visible |-> FALSE,
             out |-> IF visible THEN events(<<HideMsg(req.origin)>>) ELSE <<>>]
       [] req.kind = "column" ->
            [visible |-> visible, out |-> <<Resp>>]

\* A request is written to the channel; the editor handles requests in the
\* order they are written.
Send(req) ==
  \E initial \in (IF req.kind = "complete" THEN {-1, 0} ELSE {-1}),
     withSelect \in (IF req.kind = "select" /\ req.finish THEN BOOLEAN ELSE {FALSE}) :
    LET r == remoteRequest(remoteVisible, completionEnabled, req, initial, withSelect)
    IN /\ remoteVisible' = r.visible
       /\ fromRemote' = fromRemote \o r.out

\* A call of the host as it is logged. startCol is <<0>> when the start column
\* is passed (updateCompletion always passes it) and <<>> when it is left out.
Call(op, items, selected, index, finish) ==
  [op |-> op, items |-> items, selected |-> selected, index |-> index,
   finish |-> finish, startCol |-> <<0>>]

\* The same call with the start column left out.
NoStartCol(call) == [call EXCEPT !.startCol = <<>>]

\* A call up to `await this.bootPromise`: nothing is stored or sent yet, and the
\* call goes on after the rest of the turn it was made in.
Called(op, items, selected, index, finish) ==
  [op |-> op, pc |-> "boot", ready |-> TRUE, items |-> items, selected |-> selected,
   index |-> index, finish |-> finish, startCol |-> <<0>>]

\* The calls showCompletion(items, {startCol, selected}) of the host: with the
\* start column passed, either list with no index or index 0 to select; with
\* the start column left out, the list of two items with {selected: -1}.
ShowCalls ==
  {Call("show", items, selected, -1, FALSE) :
     items \in ItemLists, selected \in {<<>>, <<0>>}}
  \cup {NoStartCol(Call("show", <<"b", "c">>, <<-1>>, -1, FALSE))}

\* The host calls the API when bootstrap is over and its previous call returned.
CanCall == ready /\ api = NoCall /\ Len(apiCalls) < MaxCalls

\* A call has yielded at `await this.bootPromise`. The turn it was made in is
\* not over: when that turn is a redraw notification (the call was made from a
\* callback), the events behind the current one are handled first.
CallYielded == api # NoCall /\ api.pc = "boot"

OtherUnchanged ==
  UNCHANGED <<gridVars, paintVars, bufVars, cursorVars, completionEnabled, extVars>>

CallUnchanged ==
  UNCHANGED <<shownCompletionItems, popupmenuVisible, popupmenuItems,
              popupmenuSelected, hideCompletionRequested, pendingConfirmIndex,
              callbacks, fromRemote, remoteVisible>>

\* showCompletion(items, {startCol, selected}) up to `await this.bootPromise`.
ShowCompletion ==
  /\ CanCall
  /\ \E c \in ShowCalls :
       /\ api' = [Called("show", c.items, c.selected, -1, FALSE)
                    EXCEPT !.startCol = c.startCol]
       /\ apiCalls' = Append(apiCalls, c)
  /\ CallUnchanged
  /\ OtherUnchanged

\* updateCompletion(items): the selected index, if any, is read and
\* showCompletion is called, which yields at `await this.bootPromise`.
UpdateCompletion ==
  /\ CanCall
  /\ \E items \in ItemLists :
       LET selected == IF popupmenuSelected >= 0 THEN <<popupmenuSelected>> ELSE <<>>
       IN /\ api' = Called("show", items, selected, -1, FALSE)
          /\ apiCalls' = Append(apiCalls, Call("update", items, selected, -1, FALSE))
  /\ CallUnchanged
  /\ OtherUnchanged

\* showCompletion from `this.lastCompletionStartCol = startCol` to
\* `await this.neovimClient.call("complete", ...)`: the items and flags are
\* stored and complete is requested.
ShowCompletionStores ==
  /\ SetCompletionState(showCompletionStart(CompletionState, api.items))
  /\ Send(CompleteReq(api.items, "showCompletion"))
  /\ api' = [api EXCEPT !.pc = "complete", !.ready = FALSE]

\* showCompletion asks for a read of getCurrentBufferColumn and waits for it.
ShowCompletionReads(pc) ==
  /\ Send(ColumnReq)
  /\ api' = [api EXCEPT !.pc = pc, !.ready = FALSE]
  /\ UNCHANGED <<shownCompletionItems, popupmenuVisible, popupmenuItems,
                 popupmenuSelected, hideCompletionRequested,
                 pendingConfirmIndex, callbacks>>

\* showCompletion after an await. After bootPromise: with startCol given the
\* items are stored and complete is requested; without it getCurrentBufferColumn
\* awaits the current window and then its cursor, and the store and the
\* complete request follow (a failing read falls back to the last known column
\* in the catch, so the window's failure skips the cursor read). After complete:
\* the select request when `selected` was given. Then the end of the call.
ShowCompletionResumes ==
  /\ api.op = "show"
  /\ api.ready
  /\ CASE api.pc = "boot" /\ api.startCol # <<>> -> ShowCompletionStores
       [] api.pc = "boot" /\ api.startCol = <<>> -> ShowCompletionReads("window")
       [] api.pc = "window" -> \/ ShowCompletionReads("cursor")
                               \/ ShowCompletionStores
       [] api.pc = "cursor" -> ShowCompletionStores
       [] api.pc = "complete" /\ api.selected # <<>> ->
            /\ Send(SelectReq(api.selected[1], FALSE, "showCompletion"))
            /\ api' = [api EXCEPT !.pc = "select", !.ready = FALSE]
            /\ UNCHANGED <<shownCompletionItems, popupmenuVisible, popupmenuItems,
                           popupmenuSelected, hideCompletionRequested,
                           pendingConfirmIndex, callbacks>>
       [] OTHER ->
            /\ SetCompletionState(showCompletionDone(CompletionState, completionEnabled,
                                                     api.selected))
            /\ api' = NoCall
            /\ UNCHANGED <<fromRemote, remoteVisible>>
  /\ UNCHANGED apiCalls
  /\ OtherUnchanged

\* hideCompletion() up to `await this.bootPromise`.
HideCompletion ==
  /\ CanCall
  /\ api' = Called("hide", <<>>, <<>>, -1, TRUE)
  /\ apiCalls' = Append(apiCalls, Call("hide", <<>>, <<>>, -1, TRUE))
  /\ CallUnchanged
  /\ OtherUnchanged

\* hideCompletion after an await. After bootPromise: the flags are set and the
\* finishing select of -1 is requested. After that request: the end of the call.
HideCompletionResumes ==
  /\ api.op = "hide"
  /\ api.ready
  /\ IF api.pc = "boot"
       THEN /\ SetCompletionState(hideCompletionStart(CompletionState))
            /\ Send(SelectReq(-1, TRUE, "hideCompletion"))
            /\ api' = [api EXCEPT !.pc = "select", !.ready = FALSE]
       ELSE /\ SetCompletionState(hideCompletionDone(CompletionState, completionEnabled))
            /\ api' = NoCall
            /\ UNCHANGED <<fromRemote, remoteVisible>>
  /\ UNCHANGED apiCalls
  /\ OtherUnchanged

\* selectCompletion(index, {finish}) up to `await this.bootPromise`.
SelectCompletion ==
  /\ CanCall
  /\ \E index \in {0, 1}, finish \in BOOLEAN :
       /\ api' = Called("select", <<>>, <<>>, index, finish)
       /\ apiCalls' = Append(apiCalls, Call("select", <<>>, <<>>, index, finish))
  /\ CallUnchanged
  /\ OtherUnchanged

\* selectCompletion after an await. After bootPromise: the pending confirm index
\* is set and the select is requested. After that request: the end of the call.
SelectCompletionResumes ==
  /\ api.op = "select"
  /\ api.ready
  /\ IF api.pc = "boot"
       THEN /\ SetCompletionState(selectCompletionStart(CompletionState, api.index,
                                                        api.finish))
            /\ Send(SelectReq(api.index, api.finish, "selectCompletion"))
            /\ api' = [api EXCEPT !.pc = "select", !.ready = FALSE]
       ELSE /\ SetCompletionState(selectCompletionDone(CompletionState,
                                                       completionEnabled,
                                                       api.index, api.finish))
            /\ api' = NoCall
            /\ UNCHANGED <<fromRemote, remoteVisible>>
  /\ UNCHANGED apiCalls
  /\ OtherUnchanged

\* handleKeyPress with a key that accepts or leaves the completion: the input
\* is sent and not awaited. A key is handled in a turn of its own.
KeyPress ==
  /\ ready
  /\ ~CallYielded
  /\ Len(apiCalls) < MaxCalls
  /\ Send(KeyReq)
  /\ apiCalls' = Append(apiCalls, Call("key", <<>>, <<>>, -1, FALSE))
  /\ UNCHANGED <<shownCompletionItems, popupmenuVisible, popupmenuItems,
                 popupmenuSelected, hideCompletionRequested, pendingConfirmIndex,
                 callbacks, api>>
  /\ OtherUnchanged

\* The response at the head of the channel settles the awaited request.
RpcResponse ==
  /\ fromRemote # <<>>
  /\ Head(fromRemote).kind = "resp"
  /\ api' = [api EXCEPT !.ready = TRUE]
  /\ fromRemote' = Tail(fromRemote)
  /\ UNCHANGED <<shownCompletionItems, popupmenuVisible, popupmenuItems,
                 popupmenuSelected, hideCompletionRequested, pendingConfirmIndex,
                 callbacks, remoteVisible, apiCalls>>
  /\ OtherUnchanged

\* A redraw notification with the popupmenu_show at the head of the channel.
PopupmenuShowEvent ==
  /\ fromRemote # <<>>
  /\ Head(fromRemote).kind = "show"
  /\ SetCompletionState(popupmenuShow(CompletionState, completionEnabled, Head(fromRemote)))
  /\ fromRemote' = Tail(fromRemote)
  /\ UNCHANGED <<api, remoteVisible, apiCalls>>
  /\ OtherUnchanged

\* A redraw notification with the popupmenu_select at the head of the channel.
PopupmenuSelectEvent ==
  /\ fromRemote # <<>>
  /\ Head(fromRemote).kind = "select"
  /\ SetCompletionState(popupmenuSelect(CompletionState, completionEnabled, Head(fromRemote)))
  /\ fromRemote' = Tail(fromRemote)
  /\ UNCHANGED <<api, remoteVisible, apiCalls>>
  /\ OtherUnchanged

\* A redraw notification with the popupmenu_hide at the head of the channel.
PopupmenuHideEvent ==
  /\ fromRemote # <<>>
  /\ Head(fromRemote).kind = "hide"
  /\ SetCompletionState(popupmenuHide(CompletionState, completionEnabled, Head(fromRemote)))
  /\ fromRemote' = Tail(fromRemote)
  /\ UNCHANGED <<api, remoteVisible, apiCalls>>
  /\ OtherUnchanged

NextCompletion ==
  \/ UiAttach
  \/ BindToFirstBuffer
  \/ WriteInitialValue
  \/ BootstrapModeNormal
  \/ ShowCompletion
  \/ UpdateCompletion
  \/ ShowCompletionResumes
  \/ HideCompletion
  \/ HideCompletionResumes
  \/ SelectCompletion
  \/ SelectCompletionResumes
  \/ KeyPress
  \/ RpcResponse
  \/ PopupmenuShowEvent
  \/ PopupmenuSelectEvent
  \/ PopupmenuHideEvent

\* The completion API against the editor's popup menu.
SpecCompletion == InitNoValue /\ [][NextCompletion]_vars

\* Every call of the host has returned and nothing is in transit.
Quiescent == api = NoCall /\ fromRemote = <<>>

IsLifecycle(c) == c.type \in {"show", "confirm", "hide"}

\* The show, confirm and hide callbacks, in order.
Lifecycle == SelectSeq(callbacks, IsLifecycle)

IsPrefix(p, q) == Len(p) <= Len(q) /\ SubSeq(q, 1, Len(p)) = p

\* C5: after showCompletion(items) with two items and then
\* selectCompletion(1, {finish: true}), once both calls returned and every
\* event arrived, a confirm callback with index 1 was emitted and no hide
\* callback precedes it since the show of that popup.
C5_FinishConfirmsIndexOne ==
  ( /\ Len(apiCalls) = 2
    /\ apiCalls[1].op = "show" /\ Len(apiCalls[1].items) >= 2
    /\ apiCalls[1].selected = <<>>
    /\ apiCalls[2] = Call("select", <<>>, <<>>, 1, TRUE)
    /\ Quiescent )
  => \E k \in DOMAIN callbacks :
       /\ callbacks[k].type = "confirm"
       /\ callbacks[k].index = 1
       /\ \A j \in 1..(k - 1) : callbacks[j].type # "hide"

\* C6: when the host only calls showCompletion and hideCompletion, no confirm
\* callback is emitted by a hide that hideCompletion() asked for, whatever the
\* order in which the calls and the popup events in transit are handled.
C6_ClientHideNeverConfirms ==
  (\A i \in DOMAIN apiCalls : apiCalls[i].op \in {"show", "hide"})
  => \A k \in DOMAIN callbacks :
       callbacks[k].type = "confirm" => callbacks[k].cause # "hideCompletion"

\* The types of the callbacks, in order.
CallbackTypes == [k \in DOMAIN callbacks |-> callbacks[k].type]

\* The host called showCompletion(items, {selected: -1}), with no start column,
\* and then at most hideCompletion(); no other call or key.
ShowThenHideCalls ==
  /\ Len(apiCalls) \in {1, 2}
  /\ apiCalls[1].op = "show"
  /\ apiCalls[1].selected = <<-1>>
  /\ apiCalls[1].startCol = <<>>
  /\ Len(apiCalls) = 2 => apiCalls[2].op = "hide"

\* No item was selected: every callback that carries an index carries -1.
NoItemSelected == \A k \in DOMAIN callbacks : callbacks[k].index < 0

\* C7 as stated: showCompletion(items, {selected: -1}) and then
\* hideCompletion(), with no other call, no key and no item selected by the
\* editor, emit exactly a show callback and then a hide callback: no other
\* callback at any time, the hide only after hideCompletion() was called, and
\* both once the calls returned and every event arrived.
C7_ExactlyShowThenHide ==
  (ShowThenHideCalls /\ NoItemSelected)
  => /\ IsPrefix(CallbackTypes, <<"show", "hide">>)
     /\ Len(apiCalls) = 1 => IsPrefix(CallbackTypes, <<"show">>)
     /\ (Len(apiCalls) = 2 /\ Quiescent) => CallbackTypes = <<"show", "hide">>

\* C7, amended: showCompletion(items, {selected: -1}) and then hideCompletion(),
\* with no other call or key, emit a show callback first, a hide callback last
\* (only after hideCompletion() was called, and always once the calls returned
\* and every event arrived) and never a confirm callback. With the extension
\* inactive there is no other callback. With it active only select callbacks
\* come in between, each from a popup event: with index -1 for the
\* popupmenu_select that a select request of -1 causes, and with index 0 when
\* the popupmenu_show reported item 0 as preselected.
C7_ShowThenHideOnly ==
  ShowThenHideCalls
  => LET n == Len(callbacks)
         types == [k \in DOMAIN Lifecycle |-> Lifecycle[k].type]
     IN /\ IsPrefix(types, <<"show", "hide">>)
        /\ Len(apiCalls) = 1 => IsPrefix(types, <<"show">>)
        /\ (Len(apiCalls) = 2 /\ Quiescent) => types = <<"show", "hide">>
        /\ n >= 1 => callbacks[1].type = "show"
        /\ \A k \in 2..n :
             \/ /\ callbacks[k].type = "select"
                /\ completionEnabled
                /\ callbacks[k].via = "event"
                /\ callbacks[k].index \in {-1, 0}
                /\ callbacks[k].index = 0 => callbacks[1].index = 0
             \/ /\ callbacks[k].type = "hide"
                /\ k = n
        /\ ~completionEnabled => IsPrefix(CallbackTypes, <<"show", "hide">>)

\* With the extension active and the start column left out, the popup was shown
\* with an item preselected by the editor, then hidden by the client without a
\* confirm: show, the selects of index 0 and -1, hide.
C7_Witness ==
  /\ completionEnabled
  /\ ShowThenHideCalls
  /\ Len(apiCalls) = 2
  /\ Quiescent
  /\ \E k \in DOMAIN callbacks : callbacks[k].type = "select" /\ callbacks[k].index = 0
  /\ \E k \in DOMAIN callbacks : callbacks[k].type = "select" /\ callbacks[k].index = -1
  /\ [k \in DOMAIN Lifecycle |-> Lifecycle[k].type] = <<"show", "hide">>

\* C8 as stated: in either configuration a confirm callback is followed by a
\* hide callback with no show callback in between.
C8_ConfirmThenHide ==
  \A k \in DOMAIN callbacks :
    callbacks[k].type = "confirm" =>
      /\ \A j \in (k + 1)..Len(callbacks) :
           callbacks[j].type = "show" =>
             \E m \in (k + 1)..(j - 1) : callbacks[m].type = "hide"
      /\ Quiescent => \E j \in (k + 1)..Len(callbacks) : callbacks[j].type = "hide"

\* C8, amended: with the extension active every confirm callback is directly
\* followed by the hide callback of the same popupmenu_hide event; with the
\* extension inactive confirm comes from selectCompletion and hide only from
\* hideCompletion.
C8_ConfirmAdjacentHideWhenActive ==
  \A k \in DOMAIN callbacks :
    IF completionEnabled
      THEN callbacks[k].type = "confirm" =>
             /\ k < Len(callbacks)
             /\ callbacks[k + 1].type = "hide"
             /\ callbacks[k + 1].via = "event"
             /\ callbacks[k + 1].cause = callbacks[k].cause
      ELSE /\ callbacks[k].type = "confirm" =>
                callbacks[k].via = "api" /\ callbacks[k].cause = "selectCompletion"
           /\ callbacks[k].type = "hide" =>
                callbacks[k].via = "api" /\ callbacks[k].cause = "hideCompletion"

\* A finishing selectCompletion was confirmed and the popup hidden by the event.
C8_Witness ==
  /\ completionEnabled
  /\ \E k \in DOMAIN callbacks :
       /\ callbacks[k].type = "confirm"
       /\ callbacks[k].cause = "selectCompletion"
       /\ k < Len(callbacks)
       /\ callbacks[k + 1].type = "hide"

-----------------------------------------------------------------------------
(* Buffer notifications: lines / changedtick / detach, and the read-back *)

BufferIds == {1, 2}
Ticks == {<<>>} \cup {<<t>> : t \in 1..MaxTick}

\* The lines of the editor's buffer with that id.
LinesOf(id) == IF id = 1 THEN bufLines ELSE otherLines

\* isBoundBuffer accepting the buffer of every notification.
isBoundBuffer_Any(boundId, buf) == TRUE

\* isBoundBuffer(bufferLike), with extractBufferId giving the id `buf`.
isBoundBuffer(boundId, buf) ==
  IF boundId = 0 THEN FALSE ELSE buf = boundId

\* emitOnChange(changedtick) returning before it asks for the text.
emitOnChange_NoRead(reads, boundId, tick, buf) == reads

\* emitOnChange(changedtick) up to `await this.readBufferValue(this.boundBuffer)`:
\* the read-back of the bound buffer is requested. `buf` is the buffer of the
\* notification that asked for it.
emitOnChange(reads, boundId, tick, buf) ==
  IF boundId = 0 THEN reads
  ELSE Append(reads, [tick |-> tick, buf |-> buf, read |-> boundId])

NotesLeft == Len(readBacks) + Len(onChanges) < MaxNotes

\* The editor gets a second buffer, which becomes the current one.
RemoteNewBuffer ==
  /\ otherLines = <<>>
  /\ otherLines' = <<<<"z">>>>
  /\ UNCHANGED <<lastKnownChangedtick, readBacks, onChanges, lastNote>>
  /\ UNCHANGED notesRest

\* handleBoundBufferLines([buffer, changedtick, ...]).
HandleBufferLines ==
  /\ boundBufferId # 0
  /\ "lines" \in bufferListeners
  /\ NotesLeft
  /\ \E buf \in BufferIds, tick \in Ticks :
       /\ lastNote' = [kind |-> "lines", buf |-> buf, tick |-> tick]
       /\ IF isBoundBuffer(boundBufferId, buf) /\ tick # <<>>
            THEN /\ lastKnownChangedtick' = tick
                 /\ readBacks' = emitOnChange(readBacks, boundBufferId, tick, buf)
            ELSE UNCHANGED <<lastKnownChangedtick, readBacks>>
  /\ UNCHANGED <<otherLines, onChanges>>
  /\ UNCHANGED notesRest

\* handleBoundBufferChangedtick([buffer, changedtick]).
HandleBufferChangedtick ==
  /\ boundBufferId # 0
  /\ "changedtick" \in bufferListeners
  /\ NotesLeft
  /\ \E buf \in BufferIds, tick \in Ticks :
       /\ lastNote' = [kind |-> "changedtick", buf |-> buf, tick |-> tick]
       /\ IF isBoundBuffer(boundBufferId, buf) /\ tick # <<>>
            THEN /\ lastKnownChangedtick' = tick
                 /\ readBacks' = emitOnChange(readBacks, boundBufferId, tick, buf)
            ELSE UNCHANGED <<lastKnownChangedtick, readBacks>>
  /\ UNCHANGED <<otherLines, onChanges>>
  /\ UNCHANGED notesRest

\* handleBoundBufferDetach([buffer]): a warning, the binding stays.
HandleBufferDetach ==
  /\ boundBufferId # 0
  /\ "detach" \in bufferListeners
  /\ \E buf \in BufferIds :
       lastNote' = [kind |-> "detach", buf |-> buf, tick |-> <<>>]
  /\ UNCHANGED <<otherLines, lastKnownChangedtick, readBacks, onChanges>>
  /\ UNCHANGED notesRest

\* emitOnChange after its await: onChange gets the joined lines that were read.
ReadBackResolves ==
  /\ readBacks # <<>>
  /\ LET r == Head(readBacks)
     IN onChanges' = Append(onChanges, [value |-> joinLf(LinesOf(r.read), 1),
                                        tick |-> r.tick, buf |-> r.buf,
                                        read |-> r.read,
                                        cursor |-> lastKnownCursor,
                                        mode |-> currentVimMode])
  /\ readBacks' = Tail(readBacks)
  /\ UNCHANGED <<otherLines, lastKnownChangedtick, lastNote>>
  /\ UNCHANGED notesRest

\* The read fails: the error is logged and no callback is made.
ReadBackRejects ==
  /\ readBacks # <<>>
  /\ readBacks' = Tail(readBacks)
  /\ UNCHANGED <<otherLines, lastKnownChangedtick, onChanges, lastNote>>
  /\ UNCHANGED notesRest

NextNotes ==
  \/ UiAttach
  \/ BindToFirstBuffer
  \/ RemoteEdit
  \/ RemoteNewBuffer
  \/ HandleBufferLines
  \/ HandleBufferChangedtick
  \/ HandleBufferDetach
  \/ ReadBackResolves
  \/ ReadBackRejects

\* The bound buffer, its notifications and the onChange callbacks.
SpecNotes == InitNoValue /\ [][NextNotes]_vars

\* C11: once bound, the buffer id never changes, also after a detach or when
\* the editor has another buffer; only notifications of the bound buffer start
\* a read-back, and every onChange value was read from the bound buffer.
C11_BindingPinned ==
  /\ [](/\ boundBufferId \in {0, 1}
        /\ \A i \in DOMAIN readBacks :
             readBacks[i].buf = boundBufferId /\ readBacks[i].read = boundBufferId
        /\ \A i \in DOMAIN onChanges :
             onChanges[i].buf = boundBufferId /\ onChanges[i].read = boundBufferId)
  /\ [][boundBufferId # 0 => boundBufferId' = boundBufferId]_vars

\* The editor has a second buffer, a lines notification of it was handled last,
\* after a detach or not, and an onChange of the bound buffer was emitted.
C11_Witness ==
  /\ boundBufferId = 1
  /\ otherLines # <<>>
  /\ lastNote.kind = "lines" /\ lastNote.buf = 2 /\ lastNote.tick # <<>>
  /\ Len(onChanges) >= 1
  /\ readBacks = <<>>

-----------------------------------------------------------------------------
(* Mode: the mode_change redraw event *)

Modes == {"normal", "insert", "visual"}

\* The first field of a mode_change call: <<name>>, or <<>> when it is no string.
ModeNames == {<<>>} \cup {<<m>> : m \in Modes}

\* The mode_change handler calling onModeChange on every call.
modeChange_AlwaysEmits(mode, name) ==
  LET after == IF name # <<>> THEN name[1] ELSE mode
  IN [mode |-> after,
      emitted |-> <<[mode |-> after, previousMode |-> mode]>>]

\* applyRedrawEvents, case "mode_change", one call [modeName, modeIdx]: the mode
\* afterwards and the onModeChange callbacks made.
modeChange(mode, name) ==
  LET after == IF name # <<>> THEN name[1] ELSE mode
  IN [mode |-> after,
      emitted |-> IF mode # after
                    THEN <<[mode |-> after, previousMode |-> mode]>>
                    ELSE <<>>]

\* A redraw notification with one mode_change call.
ModeChange ==
  /\ Len(modeEvents) < MaxModeEvents
  /\ \E name \in ModeNames :
       LET r == modeChange(currentVimMode, name)
       IN /\ currentVimMode' = r.mode
          /\ modeEvents' = Append(modeEvents, [before |-> currentVimMode, name |-> name,
                                               after |-> r.mode, emitted |-> r.emitted])
  /\ UNCHANGED modeRest

NextMode ==
  \/ ModeChange

\* The mode_change events of the editor.
SpecMode == InitNoValue /\ [][NextMode]_vars

\* C12: a mode_change event emits onModeChange exactly when its mode name differs
\* from the mode held before it, with previousMode the mode before the event and
\* mode the mode after it.
C12_ModeChangeCallback ==
  \A i \in DOMAIN modeEvents :
    LET ev == modeEvents[i]
        before == IF i = 1 THEN "normal" ELSE modeEvents[i - 1].after
    IN /\ ev.before = before
       /\ ev.name # <<>> => ev.after = ev.name[1]
       /\ (ev.emitted # <<>>) <=> (ev.name # <<>> /\ ev.name[1] # before)
       /\ ev.emitted # <<>> =>
            ev.emitted = <<[mode |-> ev.name[1], previousMode |-> before]>>
       /\ i = Len(modeEvents) => currentVimMode = ev.after

\* An event that changed the mode and one that named the mode already held.
C12_Witness ==
  /\ Len(modeEvents) >= 2
  /\ modeEvents[1].emitted = <<[mode |-> "insert", previousMode |-> "normal"]>>
  /\ modeEvents[2].name = <<"insert">>
  /\ modeEvents[2].emitted = <<>>

-----------------------------------------------------------------------------
(* Shutdown: destroySelf / shutdown *)

\* The fields shutdown() works on.
ShutState ==
  [shuttingDown |-> shuttingDown, pc |-> shutPc, steps |-> shutSteps]

Step(name, ok) == [step |-> name, ok |-> ok]

\* shutdown() without the test of this.shuttingDown.
shutdownStart_NoGuard(st) ==
  [st EXCEPT !.shuttingDown = TRUE, !.pc = "detach"]

\* shutdown() up to `await this.neovimClient.uiDetach()`: nothing when a
\* shutdown has begun, else the flag is set, the buffer listeners are disposed
\* and the detach request is sent.
shutdownStart(st) ==
  IF st.shuttingDown THEN st
  ELSE [st EXCEPT !.shuttingDown = TRUE, !.pc = "detach"]

\* destroySelf() or another caller runs shutdown().
Shutdown ==
  /\ shutdownCalls < MaxShutdownCalls
  /\ shutdownCalls' = shutdownCalls + 1
  /\ LET st == shutdownStart(ShutState)
     IN /\ shuttingDown' = st.shuttingDown
        /\ shutPc' = st.pc
        /\ shutSteps' = st.steps
        /\ bufferListeners' = IF shuttingDown THEN bufferListeners ELSE {}
  /\ UNCHANGED <<processKilled, processAlive, exitRequested>>
  /\ UNCHANGED <<coreVars, noteVars, modeVars, bootVars, hlVars, keyVars, syncVars,
                 rawVars, hostVars, tickVars>>

\* A shutdown that gives up when uiDetach() rejects.
ShutdownDetachSettles_StopsOnFailure ==
  /\ shutPc = "detach"
  /\ \E detached \in BOOLEAN, quitSent \in BOOLEAN :
       /\ shutSteps' = shutSteps
                        \o (IF detached
                              THEN <<Step("detach", detached), Step("quit", quitSent)>>
                              ELSE <<Step("detach", detached)>>)
       /\ exitRequested' = (exitRequested \/ (detached /\ quitSent /\ processAlive))
       /\ shutPc' = IF detached THEN "close" ELSE "done"
  /\ UNCHANGED <<shuttingDown, processKilled, processAlive, shutdownCalls>>
  /\ UNCHANGED shutRest

\* uiDetach() resolves or rejects; quit() is called and returns or throws; the
\* close request is sent.
ShutdownDetachSettles ==
  /\ shutPc = "detach"
  /\ \E detached \in BOOLEAN, quitSent \in BOOLEAN :
       /\ shutSteps' = shutSteps \o <<Step("detach", detached), Step("quit", quitSent)>>
       /\ exitRequested' = (exitRequested \/ (quitSent /\ processAlive))
  /\ shutPc' = "close"
  /\ UNCHANGED <<shuttingDown, processKilled, processAlive, shutdownCalls>>
  /\ UNCHANGED shutRest

\* close() resolves or rejects; the process is killed unless it was before.
\* kill() delivers the signal to a running process and sets `killed`.
ShutdownCloseSettles ==
  /\ shutPc = "close"
  /\ \E closed \in BOOLEAN :
       shutSteps' = shutSteps \o <<Step("close", closed)>>
                    \o (IF ~processKilled THEN <<Step("kill", processAlive)>> ELSE <<>>)
  /\ processKilled' = (processKilled \/ processAlive)
  /\ exitRequested' = (exitRequested \/ processAlive)
  /\ shutPc' = "done"
  /\ UNCHANGED <<shuttingDown, processAlive, shutdownCalls>>
  /\ UNCHANGED shutRest

\* The editor process ends after a quit command or a signal.
ProcessExits ==
  /\ processAlive
  /\ exitRequested
  /\ processAlive' = FALSE
  /\ UNCHANGED <<shuttingDown, shutPc, shutSteps, processKilled, exitRequested,
                 shutdownCalls>>
  /\ UNCHANGED shutRest

NextShutdown ==
  \/ Shutdown
  \/ ShutdownDetachSettles
  \/ ShutdownCloseSettles
  \/ ProcessExits
  \/ ModeChange

\* Shutdown of a running component.
SpecShutdown == InitNoValue /\ [][NextShutdown]_vars

\* The same with every awaited request settling and the process obeying.
SpecShutdownLive ==
  /\ SpecShutdown
  /\ WF_vars(ShutdownDetachSettles)
  /\ WF_vars(ShutdownCloseSettles)
  /\ WF_vars(ProcessExits)

StepNames == [i \in DOMAIN shutSteps |-> shutSteps[i].step]

\* C13: after shutdown() the steps detach, quit, close and kill are attempted in
\* that order whatever step fails, and the editor process ends.
C13_ShutdownRunsEveryStep ==
  /\ [](/\ IsPrefix(StepNames, <<"detach", "quit", "close", "kill">>)
        /\ shutPc = "close" => StepNames = <<"detach", "quit">>
        /\ shutPc = "done" => StepNames = <<"detach", "quit", "close", "kill">>)
  /\ (shuttingDown ~> (shutPc = "done" /\ ~processAlive))

\* Detach, quit and close all failed and the process was killed.
C13_Witness ==
  /\ shutPc = "done"
  /\ shutSteps = <<Step("detach", FALSE), Step("quit", FALSE), Step("close", FALSE),
                   Step("kill", TRUE)>>
  /\ ~processAlive

\* C14: a shutdown() call made when a shutdown has begun, finished or not,
\* changes no state and performs no step: no step is attempted twice.
C14_SecondShutdownIsNoOp ==
  /\ [](\A i, j \in DOMAIN shutSteps : shutSteps[i].step = shutSteps[j].step => i = j)
  /\ [][(shutdownCalls' = shutdownCalls + 1 /\ shuttingDown)
          => UNCHANGED <<shuttingDown, shutPc, shutSteps, processKilled, processAlive,
                         exitRequested, shutRest>>]_vars

\* Two calls were made, the second while the first awaited close().
C14_Witness ==
  /\ shutdownCalls = 2
  /\ shutPc = "close"
  /\ Len(shutSteps) = 2

-----------------------------------------------------------------------------
(* Bootstrap and the text API issued while it runs *)

\* The getValue()/setValue() calls followed through `await this.bootPromise`.
MaxValueCalls == 2

\* `await this.neovimClient.uiAttach(...)` rejects: bootstrap() throws.
UiAttachFails ==
  /\ bootPc = "attach"
  /\ bootPc' = "failed"
  /\ UNCHANGED <<coreVars, bootRest, optionValue, attached, onReadyLog, waiting,
                 valueCalls>>

\* bindToFirstBuffer() throws: the buffer list does not answer or is empty.
BindFails ==
  /\ bootPc = "bind"
  /\ bootPc' = "failed"
  /\ UNCHANGED <<coreVars, bootRest, optionValue, attached, onReadyLog, waiting,
                 valueCalls>>

\* writeBufferValue of the `value` option rejects: bootstrap() throws.
WriteInitialValueFails ==
  /\ bootPc = "value"
  /\ optionValue # <<>>
  /\ boundBufferId # 0
  /\ bootPc' = "failed"
  /\ UNCHANGED <<coreVars, bootRest, optionValue, attached, onReadyLog, waiting,
                 valueCalls>>

\* getValue() or setValue("a") is called while bootstrap() has not returned, or
\* after it threw: the call stops at `await this.bootPromise`.
ValueCallAwaits ==
  /\ bootPc # "done"
  /\ Len(waiting) + Len(valueCalls) < MaxValueCalls
  /\ \E op \in {"get", "set"} :
       waiting' = Append(waiting, [op |-> op, text |-> <<"a">>,
                                   bound |-> boundBufferId # 0])
  /\ UNCHANGED <<coreVars, bootRest, bootPc, optionValue, attached, onReadyLog,
                 valueCalls>>

\* requireBoundBuffer(): the outcome of the call once bootPromise has resolved.
requireBoundBuffer(boundId) == IF boundId = 0 THEN "notReady" ELSE "ok"

\* bootPromise has resolved: the oldest waiting call goes on to
\* requireBoundBuffer() and to its remote read or write.
ValueCallResumes ==
  /\ bootPc = "done"
  /\ waiting # <<>>
  /\ LET c == Head(waiting)
         outcome == requireBoundBuffer(boundBufferId)
     IN /\ waiting' = Tail(waiting)
        /\ valueCalls' = Append(valueCalls,
             [op |-> c.op, bound |-> c.bound, outcome |-> outcome,
              remote |-> outcome = "ok"])
        /\ IF outcome # "ok"
             THEN UNCHANGED <<bufLines, lastSet, lastGot>>
             ELSE IF c.op = "set"
               THEN /\ bufLines' = toBufferLines(c.text)
                    /\ lastSet' = [valid |-> TRUE, text |-> c.text]
                    /\ lastGot' = NoText
               ELSE /\ lastGot' = [valid |-> TRUE, text |-> joinLf(bufLines, 1)]
                    /\ UNCHANGED <<bufLines, lastSet>>
  /\ UNCHANGED <<boundBufferId, gridVars, paintVars, cursorVars, completionVars,
                 bootRest, bootPc, optionValue, attached, onReadyLog>>

\* bootPromise has rejected: the await of the oldest waiting call throws the
\* error of bootstrap().
ValueCallRejects ==
  /\ bootPc = "failed"
  /\ waiting # <<>>
  /\ waiting' = Tail(waiting)
  /\ valueCalls' = Append(valueCalls,
       [op |-> Head(waiting).op, bound |-> Head(waiting).bound,
        outcome |-> "bootError", remote |-> FALSE])
  /\ UNCHANGED <<coreVars, bootRest, bootPc, optionValue, attached, onReadyLog>>

NextBoot ==
  \/ UiAttach
  \/ UiAttachFails
  \/ BindToFirstBuffer
  \/ BindFails
  \/ WriteInitialValue
  \/ WriteInitialValueFails
  \/ BootstrapMode
  \/ BootstrapModeFails
  \/ ValueCallAwaits
  \/ ValueCallResumes
  \/ ValueCallRejects
  \/ GetValue

\* Construction, bootstrap and the text API, with and without the `value`
\* option; nothing but the component writes the buffer.
SpecBoot == Init /\ [][NextBoot]_vars

\* C15: a getValue() or setValue() made before the buffer is bound fails with
\* the "binding is not ready" error and reads or writes nothing remotely.
C15_EarlyCallFailsNotReady ==
  \A i \in 1..Len(valueCalls) :
    ~valueCalls[i].bound =>
      valueCalls[i].outcome = "notReady" /\ ~valueCalls[i].remote

\* The `value` option as the buffer holds it: each CR LF pair is one line break.
NormalisedOption == DropCrBeforeLf(optionValue[1], Len(optionValue[1]))

\* bootstrap() has returned or thrown.
BootSettled == bootPc \in {"done", "failed"}

\* What holds at every call of onReady: the UI is attached and the buffer is
\* bound.
OnReadyAfterHandshake ==
  \A i \in 1..Len(onReadyLog) : onReadyLog[i].attached /\ onReadyLog[i].bound

\* C16 as stated: onReady is called exactly once per component (never twice,
\* and once when bootstrap() is over), after the UI was attached, the buffer
\* bound and the `value` option written, so that the buffer holds the initial
\* value at the call and a getValue() made later, before any setValue(),
\* returns the initial value.
C16_OnReadyExactlyOnce ==
  /\ Len(onReadyLog) <= 1
  /\ BootSettled => Len(onReadyLog) = 1
  /\ OnReadyAfterHandshake
  /\ \A i \in 1..Len(onReadyLog) :
       optionValue # <<>> => onReadyLog[i].text = optionValue[1]
  /\ (lastGot.valid /\ ~lastSet.valid /\ optionValue # <<>>) =>
       lastGot.text = optionValue[1]

\* C16, amended: onReady is called at most once, exactly once when bootstrap()
\* has returned and never when it threw (uiAttach, the binding or the write of
\* the value rejected); at that call the UI is attached, the buffer is bound
\* and holds the `value` option, when one was given, with each CR LF pair
\* replaced by LF, and a getValue() made later, before any setValue(), returns
\* that text: the initial value itself when it holds no CR LF pair.
C16_OnReadyAfterBootstrap ==
  /\ Len(onReadyLog) <= 1
  /\ (Len(onReadyLog) = 1) <=> (bootPc = "done")
  /\ bootPc = "failed" => onReadyLog = <<>>
  /\ OnReadyAfterHandshake
  /\ \A i \in 1..Len(onReadyLog) :
       optionValue # <<>> =>
         /\ onReadyLog[i].text = NormalisedOption
         /\ (\A j \in 1..Len(optionValue[1]) : optionValue[1][j] # "CR") =>
              onReadyLog[i].text = optionValue[1]
  /\ (lastGot.valid /\ ~lastSet.valid /\ optionValue # <<>>) =>
       lastGot.text = NormalisedOption

\* onReady was called for a component constructed with the value "a" CR LF, and
\* a getValue() made after that call has returned "a" LF.
C16_Witness ==
  /\ Len(onReadyLog) = 1
  /\ optionValue = <<<<"a", "CR", "LF">>>>
  /\ onReadyLog[1].text = <<"a", "LF">>
  /\ lastGot = [valid |-> TRUE, text |-> <<"a", "LF">>]
  /\ ~lastSet.valid

-----------------------------------------------------------------------------
(* updateCompletion against showCompletion *)

\* The index the callbacks have reported as selected, -1 when the log is empty or
\* its last report closed the menu: a show or a select names the index, a hide
\* or a confirm ends the selection.
previousSelected(log, n) ==
  IF n = 0 THEN -1
  ELSE IF log[n].type \in {"show", "select"} THEN log[n].index
  ELSE -1

\* The `selected` option that names index k: left out when nothing is selected.
selectedOption(k) == IF k >= 0 THEN <<k>> ELSE <<>>

\* C17: updateCompletion(items) acts as showCompletion(items, {selected: k}) with
\* k the index selected before the update: the call in progress is the one that
\* showCompletion starts, and like it the update stores and requests nothing
\* before it yields, hence the same stored state, complete request, select
\* request and show callback after it, with the extension active and without it.
C17_UpdateIsShowWithPrevious ==
  [][(Len(apiCalls') = Len(apiCalls) + 1 /\ apiCalls'[Len(apiCalls')].op = "update") =>
       LET items == apiCalls'[Len(apiCalls')].items
           k == selectedOption(previousSelected(callbacks, Len(callbacks)))
       IN /\ api' = Called("show", items, k, -1, FALSE)
          /\ CallUnchanged]_vars

-----------------------------------------------------------------------------
(* Highlights: default_colors_set, hl_attr_define, parseHl, resolveStyle *)

\* The highlight ids the editor defines are 1..MaxHlId; ids 0 and MaxHlId + 1 are
\* never defined.
MaxHlId == 1

\* The calls of one default_colors_set event.
MaxColorCalls == 2

\* 0xRRGGBB colours of the editor: blue (0x0000FF) and orange (0xFF8000).
NvimColors == {255, 16744448}

\* RGBA.fromInts(r, g, b, a)
fromInts(r, g, b, a) == <<r, g, b, a>>

\* nvimRgbToRgba(rgb): (rgb >> 16) & 0xff, (rgb >> 8) & 0xff, rgb & 0xff.
nvimRgbToRgba(rgb) ==
  fromInts((rgb \div 65536) % 256, (rgb \div 256) % 256, rgb % 256, 255)

\* The flags an hl_attr_define definition sets to true.
HlFlags == {"undercurl", "reverse"}

\* The attributes of one definition: foreground and background are <<>> when
\* the editor leaves them out.
HlAttrs ==
  [foreground : {<<>>} \cup {<<c>> : c \in NvimColors},
   background : {<<>>} \cup {<<c>> : c \in NvimColors},
   flags : SUBSET HlFlags]

\* attrs.foreground / attrs.background through nvimRgbToRgba, <<>> for undefined.
hlColor(c) == IF c # <<>> THEN <<nvimRgbToRgba(c[1])>> ELSE <<>>

\* The TextAttributes bits parseHl or-s together before it looks at reverse; the
\* attribute word is modelled as the set of its bits.
hlBits(attrs) ==
  {b \in {"BOLD", "ITALIC", "UNDERLINE", "STRIKETHROUGH"} :
     \/ b = "BOLD" /\ "bold" \in attrs.flags
     \/ b = "ITALIC" /\ "italic" \in attrs.flags
     \/ b = "UNDERLINE" /\ attrs.flags \cap {"underline", "undercurl", "underdouble"} # {}
     \/ b = "STRIKETHROUGH" /\ "strikethrough" \in attrs.flags}

\* parseHl setting the inverse bit of a reversed highlight without the swap.
parseHl_NoSwap(attrs) ==
  [fg |-> hlColor(attrs.foreground), bg |-> hlColor(attrs.background),
   attr |-> IF "reverse" \in attrs.flags THEN hlBits(attrs) \cup {"INVERSE"}
            ELSE hlBits(attrs)]

\* parseHl(attrs)
parseHl(attrs) ==
  IF "reverse" \in attrs.flags
    THEN [fg |-> hlColor(attrs.background), bg |-> hlColor(attrs.foreground),
          attr |-> hlBits(attrs) \cup {"INVERSE"}]
    ELSE [fg |-> hlColor(attrs.foreground), bg |-> hlColor(attrs.background),
          attr |-> hlBits(attrs)]

\* resolveStyle falling back to the default foreground for both colours.
resolveStyle_FgOnly(table, dfg, dbg, hlId) ==
  IF hlId \in DOMAIN table
    THEN [fg |-> IF table[hlId].fg # <<>> THEN table[hlId].fg[1] ELSE dfg,
          bg |-> IF table[hlId].bg # <<>> THEN table[hlId].bg[1] ELSE dfg,
          attr |-> table[hlId].attr]
    ELSE [fg |-> dfg, bg |-> dfg, attr |-> {}]

\* resolveStyle(hlId) against this.hl, this.defaultFg and this.defaultBg.
resolveStyle(table, dfg, dbg, hlId) ==
  IF hlId \in DOMAIN table
    THEN [fg |-> IF table[hlId].fg # <<>> THEN table[hlId].fg[1] ELSE dfg,
          bg |-> IF table[hlId].bg # <<>> THEN table[hlId].bg[1] ELSE dbg,
          attr |-> table[hlId].attr]
    ELSE [fg |-> dfg, bg |-> dbg, attr |-> {}]

\* The calls [fg, bg] of one default_colors_set event.
ColorCalls ==
  UNION {[1..n -> [fg : NvimColors, bg : NvimColors]] : n \in 1..MaxColorCalls}

\* applyRedrawEvents, case "default_colors_set": every call overwrites both
\* defaults.
RECURSIVE defaultColorsSet(_, _, _)
defaultColorsSet(defaults, calls, i) ==
  IF i > Len(calls) THEN defaults
  ELSE defaultColorsSet([fg |-> nvimRgbToRgba(calls[i].fg),
                         bg |-> nvimRgbToRgba(calls[i].bg)], calls, i + 1)

\* A redraw notification with one default_colors_set event.
DefaultColorsSet ==
  /\ \E calls \in ColorCalls :
       LET after == defaultColorsSet([fg |-> defaultFg, bg |-> defaultBg], calls, 1)
       IN /\ defaultFg' = after.fg
          /\ defaultBg' = after.bg
          /\ lastDefaults' = <<calls[Len(calls)]>>
  /\ renderRequested' = TRUE
  /\ unflushed' = TRUE
  /\ UNCHANGED <<hlTable, lastHlDef, painted, gridVars, bufVars, cursorVars,
                 completionVars, hlRest>>

\* A redraw notification with one hl_attr_define event of one definition
\* [id, rgbAttrs, ctermAttrs, info].
HlAttrDefine ==
  /\ \E id \in 1..MaxHlId, attrs \in HlAttrs :
       /\ hlTable' = [i \in DOMAIN hlTable \cup {id} |-> IF i = id THEN parseHl(attrs) ELSE hlTable[i]]
       /\ lastHlDef' = <<[id |-> id, attrs |-> attrs]>>
  /\ unflushed' = TRUE
  /\ UNCHANGED <<defaultFg, defaultBg, lastDefaults, renderRequested, painted,
                 gridVars, bufVars, cursorVars, completionVars, hlRest>>

NextHighlight ==
  \/ DefaultColorsSet
  \/ HlAttrDefine

\* The highlight table and the default colours under redraw notifications.
SpecHighlight == InitNoValue /\ [][NextHighlight]_vars

\* The style resolveStyle gives highlight id n in the current state.
Resolved(n) == resolveStyle(hlTable, defaultFg, defaultBg, n)

\* The default colours of the most recent default_colors_set event, those of
\* construction before the first one.
CurrentDefaults ==
  IF lastDefaults = <<>>
    THEN [fg |-> fromInts(255, 255, 255, 255), bg |-> fromInts(0, 0, 0, 255)]
    ELSE [fg |-> nvimRgbToRgba(lastDefaults[1].fg),
          bg |-> nvimRgbToRgba(lastDefaults[1].bg)]

\* C18: a highlight id without a table entry resolves to the current default
\* foreground and background and no attribute bits; an entry without a
\* foreground, or without a background, takes the default for that colour only.
C18_MissingFallsBackToDefaults ==
  \A n \in 0..(MaxHlId + 1) :
    IF n \notin DOMAIN hlTable
      THEN Resolved(n) = [fg |-> CurrentDefaults.fg, bg |-> CurrentDefaults.bg,
                          attr |-> {}]
      ELSE /\ Resolved(n).fg = IF hlTable[n].fg = <<>> THEN CurrentDefaults.fg ELSE hlTable[n].fg[1]
           /\ Resolved(n).bg = IF hlTable[n].bg = <<>> THEN CurrentDefaults.bg ELSE hlTable[n].bg[1]
           /\ Resolved(n).attr = hlTable[n].attr

\* After a default_colors_set event with two different colours, one id has no
\* entry and another has an entry with a background and no foreground.
C18_Witness ==
  /\ lastDefaults # <<>>
  /\ lastDefaults[1].fg # lastDefaults[1].bg
  /\ 0 \notin DOMAIN hlTable
  /\ 1 \in DOMAIN hlTable
  /\ hlTable[1].fg = <<>>
  /\ hlTable[1].bg # <<>>
  /\ Resolved(1).fg = nvimRgbToRgba(lastDefaults[1].fg)

\* C19: a highlight defined with reverse, foreground A and background B
\* resolves to foreground B and background A with the inverse bit set.
C19_ReverseSwapsColors ==
  (/\ lastHlDef # <<>>
   /\ "reverse" \in lastHlDef[1].attrs.flags
   /\ lastHlDef[1].attrs.foreground # <<>>
   /\ lastHlDef[1].attrs.background # <<>>) =>
    LET d == lastHlDef[1]
    IN /\ Resolved(d.id).fg = nvimRgbToRgba(d.attrs.background[1])
       /\ Resolved(d.id).bg = nvimRgbToRgba(d.attrs.foreground[1])
       /\ "INVERSE" \in Resolved(d.id).attr

\* A reversed highlight with an orange foreground and a blue background was
\* defined and resolves to blue on orange.
C19_Witness ==
  /\ lastHlDef # <<>>
  /\ "reverse" \in lastHlDef[1].attrs.flags
  /\ lastHlDef[1].attrs.foreground = <<16744448>>
  /\ lastHlDef[1].attrs.background = <<255>>
  /\ Resolved(lastHlDef[1].id).fg = fromInts(0, 0, 255, 255)
  /\ Resolved(lastHlDef[1].id).bg = fromInts(255, 128, 0, 255)

-----------------------------------------------------------------------------
(* Key input: applyMods, keyEventToNvimInput, handleKeyPress *)

\* Strings are sequences of one-character strings.
startsWith(s, c) == Len(s) > 0 /\ s[1] = c
endsWith(s, c) == Len(s) > 0 /\ s[Len(s)] = c

\* String.prototype.toUpperCase / toLowerCase on the letters the keys below use.
upperChar(c) ==
  CASE c = "a" -> "A" [] c = "f" -> "F" [] c = "x" -> "X" [] OTHER -> c

lowerChar(c) ==
  CASE c = "A" -> "a" [] c = "F" -> "f" [] c = "X" -> "x" [] OTHER -> c

toUpperCase(s) == [i \in 1..Len(s) |-> upperChar(s[i])]
toLowerCase(s) == [i \in 1..Len(s) |-> lowerChar(s[i])]

\* mods.join("-")
RECURSIVE joinDash(_, _)
joinDash(mods, i) ==
  IF i > Len(mods) THEN <<>>
  ELSE IF i = Len(mods) THEN <<mods[i]>>
  ELSE <<mods[i], "-">> \o joinDash(mods, i + 1)

\* The modifier letters pushed in the order ctrl, alt, shift.
modLetters(ctrl, alt, shift) ==
  (IF ctrl THEN <<"C">> ELSE <<>>) \o (IF alt THEN <<"M">> ELSE <<>>)
    \o (IF shift THEN <<"S">> ELSE <<>>)

\* applyMods gluing the modifiers to the key without the dash between them.
applyMods_NoDash(base, ctrl, alt, shift) ==
  IF ~startsWith(base, "<") \/ ~endsWith(base, ">") THEN base
  ELSE IF modLetters(ctrl, alt, shift) = <<>> THEN base
  ELSE <<"<">> \o joinDash(modLetters(ctrl, alt, shift), 1)
         \o SubSeq(base, 2, Len(base) - 1) \o <<">">>

\* applyMods(base, ctrl, alt, shift)
applyMods(base, ctrl, alt, shift) ==
  IF ~startsWith(base, "<") \/ ~endsWith(base, ">") THEN base
  ELSE IF modLetters(ctrl, alt, shift) = <<>> THEN base
  ELSE <<"<">> \o joinDash(modLetters(ctrl, alt, shift), 1) \o <<"-">>
         \o SubSeq(base, 2, Len(base) - 1) \o <<">">>

\* The table `special` of keyEventToNvimInput as pairs <<name, notation>>.
special ==
  { <<<<"e", "s", "c", "a", "p", "e">>, <<"<", "E", "s", "c", ">">>>>,
    <<<<"e", "s", "c">>, <<"<", "E", "s", "c", ">">>>>,
    <<<<"r", "e", "t", "u", "r", "n">>, <<"<", "C", "R", ">">>>>,
    <<<<"e", "n", "t", "e", "r">>, <<"<", "C", "R", ">">>>>,
    <<<<"b", "a", "c", "k", "s", "p", "a", "c", "e">>, <<"<", "B", "S", ">">>>>,
    <<<<"d", "e", "l", "e", "t", "e">>, <<"<", "D", "e", "l", ">">>>>,
    <<<<"t", "a", "b">>, <<"<", "T", "a", "b", ">">>>>,
    <<<<"u", "p">>, <<"<", "U", "p", ">">>>>,
    <<<<"d", "o", "w", "n">>, <<"<", "D", "o", "w", "n", ">">>>>,
    <<<<"l", "e", "f", "t">>, <<"<", "L", "e", "f", "t", ">">>>>,
    <<<<"r", "i", "g", "h", "t">>, <<"<", "R", "i", "g", "h", "t", ">">>>>,
    <<<<"h", "o", "m", "e">>, <<"<", "H", "o", "m", "e", ">">>>>,
    <<<<"e", "n", "d">>, <<"<", "E", "n", "d", ">">>>>,
    <<<<"p", "a", "g", "e", "u", "p">>, <<"<", "P", "a", "g", "e", "U", "p", ">">>>>,
    <<<<"p", "a", "g", "e", "d", "o", "w", "n">>,
      <<"<", "P", "a", "g", "e", "D", "o", "w", "n", ">">>>>,
    <<<<"i", "n", "s", "e", "r", "t">>, <<"<", "I", "n", "s", "e", "r", "t", ">">>>> }

\* `name in special` and special[name]
inSpecial(name) == \E p \in special : p[1] = name
specialOf(name) == (CHOOSE p \in special : p[1] = name)[2]

Digits == {"0", "1", "2", "3", "4", "5", "6", "7", "8", "9"}

\* /^f\d+$/.test(name)
isFunctionKey(name) ==
  /\ Len(name) >= 2
  /\ name[1] = "f"
  /\ \A i \in 2..Len(name) : name[i] \in Digits

\* keyEventToNvimInput(key): <<>> for null, else <<string>>.
keyEventToNvimInput(key) ==
  LET alt == key.meta \/ key.option
  IN IF inSpecial(key.name)
       THEN <<applyMods(specialOf(key.name), key.ctrl, alt, key.shift)>>
     ELSE IF isFunctionKey(key.name)
       THEN <<applyMods(<<"<">> \o toUpperCase(key.name) \o <<">">>,
                        key.ctrl, alt, key.shift)>>
     ELSE IF Len(key.sequence) > 0 /\ ~key.ctrl /\ ~alt
       THEN <<key.sequence>>
     ELSE IF (key.ctrl \/ alt) /\ Len(key.name) = 1
       THEN <<applyMods(<<"<">> \o toLowerCase(key.name) \o <<">">>,
                        key.ctrl, alt, key.shift)>>
     ELSE IF Len(key.raw) > 0 THEN <<key.raw>>
     ELSE <<>>

\* The key events of the host: a named key, a function key, two letters and a
\* key without a name; the character sequence and the raw bytes may be missing.
KeyNames ==
  {<<"e", "s", "c", "a", "p", "e">>, <<"f", "1">>, <<"a">>, <<"A">>, <<>>}

KeyEvents ==
  [name : KeyNames, ctrl : BOOLEAN, meta : BOOLEAN, option : BOOLEAN,
   shift : BOOLEAN, sequence : {<<>>, <<"a">>, <<"<">>}, raw : {<<>>, <<"r">>}]

\* handleKeyPress(key) that never takes the escape branch.
handleKeyPress_NoBlur(mode, key) ==
  LET input == keyEventToNvimInput(key)
  IN [key |-> key, input |-> input, blurred |-> FALSE,
      sent |-> input # <<>>,
      sends |-> IF input # <<>> THEN <<input[1]>> ELSE <<>>,
      handled |-> input # <<>>]

\* handleKeyPress(key) with this.currentVimMode = mode: escape in normal mode
\* blurs the component; else the key is translated and, unless the translation
\* is null, sent with one nvim.input call. `input` is what the translator
\* yields for the key, `sends` the arguments of the input calls made, `handled`
\* the value returned.
handleKeyPress(mode, key) ==
  LET blurs == key.name = <<"e", "s", "c", "a", "p", "e">> /\ mode = "normal"
      input == keyEventToNvimInput(key)
  IN [key |-> key, input |-> input, blurred |-> blurs,
      sent |-> ~blurs /\ input # <<>>,
      sends |-> IF ~blurs /\ input # <<>> THEN <<input[1]>> ELSE <<>>,
      handled |-> blurs \/ input # <<>>]

\* The host hands a key event to handleKeyPress.
HandleKeyPress ==
  /\ \E key \in KeyEvents : lastKey' = handleKeyPress(currentVimMode, key)
  /\ UNCHANGED <<coreVars, keyRest>>

NextKeys ==
  \/ UiAttach
  \/ BindToFirstBuffer
  \/ WriteInitialValue
  \/ BootstrapMode
  \/ HandleKeyPress

\* Key presses while and after the component starts.
SpecKeys == InitNoValue /\ [][NextKeys]_vars

\* No key was handled yet.
NoKey == lastKey = <<>>

\* The modifiers of the key handled last: control only, or none at all.
OnlyCtrl ==
  lastKey.key.ctrl /\ ~lastKey.key.meta /\ ~lastKey.key.option /\ ~lastKey.key.shift

NoMods ==
  ~lastKey.key.ctrl /\ ~lastKey.key.meta /\ ~lastKey.key.option /\ ~lastKey.key.shift

\* The key handled last is a literal character: one character in its sequence,
\* no modifiers, and a name that is neither a named key nor a function key.
LiteralKey ==
  /\ NoMods
  /\ Len(lastKey.key.sequence) = 1
  /\ ~inSpecial(lastKey.key.name)
  /\ ~isFunctionKey(lastKey.key.name)

\* C20 as stated: the translator yields "<c-a>" for key name "a" with control
\* on, "<esc>" for the named key escape, and a literal character without
\* modifiers unchanged.
C20_TranslatorExamples ==
  ~NoKey =>
    /\ (lastKey.key.name = <<"a">> /\ OnlyCtrl) =>
         lastKey.input = <<<<"<", "c", "-", "a", ">">>>>
    /\ (lastKey.key.name = <<"e", "s", "c", "a", "p", "e">> /\ NoMods) =>
         lastKey.input = <<<<"<", "e", "s", "c", ">">>>>
    /\ LiteralKey => lastKey.input = <<lastKey.key.sequence>>

\* C20 amended: the translator yields "<C-a>" for key name "a" with only the
\* control modifier on, "<Esc>" for the named key escape without modifiers, and
\* a literal character without modifiers unchanged.
C20_TranslatorExamplesCased ==
  ~NoKey =>
    /\ (lastKey.key.name = <<"a">> /\ OnlyCtrl) =>
         lastKey.input = <<<<"<", "C", "-", "a", ">">>>>
    /\ (lastKey.key.name = <<"e", "s", "c", "a", "p", "e">> /\ NoMods) =>
         lastKey.input = <<<<"<", "E", "s", "c", ">">>>>
    /\ LiteralKey => lastKey.input = <<lastKey.key.sequence>>

\* Control-a was pressed and sent to the editor as "<C-a>".
C20_Witness ==
  /\ ~NoKey
  /\ lastKey.key.name = <<"a">>
  /\ OnlyCtrl
  /\ lastKey.key.sequence = <<"a">>
  /\ lastKey.input = <<<<"<", "C", "-", "a", ">">>>>
  /\ lastKey.sent

-----------------------------------------------------------------------------
(* Cursor reconciliation: progress and the source of line and col *)

\* Every round trip of the reconciliation task settles: an awaited window
\* request resolves or rejects, and so does an awaited cursor request.
SpecCursorLive ==
  /\ SpecCursor
  /\ WF_vars(CursorWindowResolves)
  /\ WF_vars(CursorFetchResolves \/ CursorFetchRejects)

\* The reconciliation is at rest: the slot is empty and no task runs.
CursorQuiescent ==
  /\ cursorSyncPending = <<>>
  /\ cursorTasks = <<>>
  /\ ~cursorSyncInFlight

\* C21: when every round trip settles, the reconciliation comes to rest after
\* the grid_cursor_goto events stop; at rest a round trip was started after
\* the last event; and while no task runs the slot is empty, so no event is lost.
C21_ReconciliationSettles ==
  /\ [](cursorTasks = <<>> => cursorSyncPending = <<>>)
  /\ []((CursorQuiescent /\ cursorEvents > 0) => fetchedSinceEvent)
  /\ (cursorEvents > 0 ~> CursorQuiescent)
  /\ <>[](cursorEvents = MaxCursorEvents => CursorQuiescent)

\* The whole burst arrived, the last event of it during a round trip, and the
\* reconciliation is at rest after a further round trip.
C21_Witness ==
  /\ cursorEvents = MaxCursorEvents
  /\ CursorQuiescent
  /\ fetchedSinceEvent
  /\ lastKnownCursor.line # lastKnownCursor.row

\* C22: line and col of the cursor state are assigned only from the result of a
\* window-cursor fetch; a grid_cursor_goto event changes the screen row, the
\* screen column and the grid id only.
C22_LineColOnlyFromFetch ==
  [][cursorEvents' # cursorEvents =>
       /\ lastKnownCursor'.line = lastKnownCursor.line
       /\ lastKnownCursor'.col = lastKnownCursor.col]_vars

-----------------------------------------------------------------------------
(* Completion: the order, the sources and the resets of the callbacks *)

\* A popup is showing before callback k: a show callback precedes it with no
\* hide callback in between.
ShowingBefore(k) ==
  \E j \in 1..(k - 1) :
    /\ callbacks[j].type = "show"
    /\ \A m \in (j + 1)..(k - 1) : callbacks[m].type # "hide"

\* C23: in either configuration select, confirm and hide callbacks are emitted
\* only while a popup is showing, whatever the order of the API calls and of the
\* popup events.
C23_CallbacksWhileShowing ==
  \A k \in DOMAIN callbacks :
    callbacks[k].type \in {"select", "confirm", "hide"} => ShowingBefore(k)


\* The completion state named hidden.
CompletionHidden ==
  /\ ~popupmenuVisible
  /\ popupmenuSelected = -1
  /\ popupmenuItems = <<>>
  /\ pendingConfirmIndex = <<>>
  /\ ~hideCompletionRequested

\* C24: after every confirm or hide callback, in either configuration, the
\* completion state is hidden: not visible, selected index -1, no mirrored
\* items, no pending confirm index and no client hide request.
C24_ResetOnConfirmOrHide ==
  [][(/\ Len(callbacks') > Len(callbacks)
      /\ callbacks'[Len(callbacks')].type \in {"confirm", "hide"})
       => CompletionHidden']_vars


\* A popupmenu_hide event is handled with the extension active.
HideEventStep ==
  /\ completionEnabled
  /\ fromRemote # <<>>
  /\ Head(fromRemote).kind = "hide"
  /\ fromRemote' = Tail(fromRemote)

\* The index a popupmenu_hide would confirm: the pending one, else the mirrored
\* selection.
HideIndex ==
  IF pendingConfirmIndex # <<>> THEN pendingConfirmIndex[1] ELSE popupmenuSelected

\* Index i (0-based) names an item of the mirrored list or of the list shown.
NamesItem(i) ==
  i >= 0 /\ (i < Len(popupmenuItems) \/ i < Len(shownCompletionItems))

\* C25: a popupmenu_hide event with the extension active emits a confirm
\* callback only if the pending confirm index, else the mirrored selected
\* index, is >= 0 and names an existing item and no client hide request is
\* pending; the confirm carries that index, and a hide callback is emitted
\* after it in every case.
C25_HideEventConfirmsThenHides ==
  [][HideEventStep =>
       LET n == Len(callbacks)
           added == SubSeq(callbacks', n + 1, Len(callbacks'))
       IN /\ Len(added) \in {1, 2}
          /\ SubSeq(callbacks', 1, n) = callbacks
          /\ added[Len(added)].type = "hide"
          /\ Len(added) = 2 =>
               /\ added[1].type = "confirm"
               /\ added[1].index = HideIndex
               /\ NamesItem(HideIndex)
               /\ ~hideCompletionRequested]_vars

\* A popupmenu_hide event confirmed index 1 of a two-item popup and emitted hide
\* right after it, with the state reset.
C25_Witness ==
  /\ completionEnabled
  /\ Len(callbacks) >= 3
  /\ callbacks[Len(callbacks) - 1].type = "confirm"
  /\ callbacks[Len(callbacks) - 1].via = "event"
  /\ callbacks[Len(callbacks) - 1].index = 1
  /\ callbacks[Len(callbacks)].type = "hide"
  /\ callbacks[Len(callbacks)].via = "event"
  /\ ~popupmenuVisible

\* showCompletion and updateCompletion with the list of two items.
LastCall == apiCalls'[Len(apiCalls')]

ShowTwoItems ==
  /\ ShowCompletion
  /\ LastCall.items = <<"b", "c">>

UpdateTwoItems ==
  /\ UpdateCompletion
  /\ LastCall.items = <<"b", "c">>

NextSources ==
  \/ UiAttach
  \/ BindToFirstBuffer
  \/ WriteInitialValue
  \/ BootstrapModeNormal
  \/ ShowTwoItems
  \/ UpdateTwoItems
  \/ ShowCompletionResumes
  \/ HideCompletion
  \/ HideCompletionResumes
  \/ SelectCompletion
  \/ SelectCompletionResumes
  \/ KeyPress
  \/ RpcResponse
  \/ PopupmenuShowEvent
  \/ PopupmenuSelectEvent
  \/ PopupmenuHideEvent

\* The completion API with one list of items, for counting the callbacks of
\* longer runs.
SpecSources == InitNoValue /\ [][NextSources]_vars

\* The number of entries of sequence s that satisfy P.
CountOf(s, P(_)) == Cardinality({i \in DOMAIN s : P(s[i])})

IsShowCall(c) == c.op \in {"show", "update"}
IsClosingCall(c) == c.op \in {"hide", "key"} \/ (c.op = "select" /\ c.finish)
IsShowCallback(c) == c.type = "show"
IsConfirmCallback(c) == c.type = "confirm"
IsHideCallback(c) == c.type = "hide"

IsSelectCallback(c) == c.type = "select"

\* The calls that run the operation a callback names as its cause.
CallsOf(cause) ==
  CASE cause = "showCompletion" -> CountOf(apiCalls, IsShowCall)
    [] cause = "hideCompletion" -> Cardinality({i \in DOMAIN apiCalls : apiCalls[i].op = "hide"})
    [] cause = "selectCompletion" -> Cardinality({i \in DOMAIN apiCalls : apiCalls[i].op = "select"})
    [] OTHER -> Cardinality({i \in DOMAIN apiCalls : apiCalls[i].op = "key"})

\* The callbacks of that type caused by that operation.
CallbacksOf(type, cause) ==
  Cardinality({k \in DOMAIN callbacks :
                 callbacks[k].type = type /\ callbacks[k].cause = cause})

Causes == {"showCompletion", "hideCompletion", "selectCompletion", "key"}

\* Every callback comes from the one source of its configuration: an API call
\* with the extension inactive, a popup event with it active, and a popup event
\* handled with the extension inactive would emit nothing.
SingleSource ==
  /\ \A k \in DOMAIN callbacks :
       callbacks[k].via = IF completionEnabled THEN "event" ELSE "api"
  /\ ~completionEnabled =>
       /\ \A items \in ItemLists, selected \in {-1, 0} :
            popupmenuShow(CompletionState, completionEnabled,
                          ShowMsg(items, selected, "none")).log = callbacks
       /\ \A selected \in {-1, 0, 1} :
            popupmenuSelect(CompletionState, completionEnabled,
                            SelectMsg(selected, "none")).log = callbacks
       /\ popupmenuHide(CompletionState, completionEnabled, HideMsg("none")).log
            = callbacks

\* C26 as stated: every completion callback has one source per configuration,
\* and hence one operation never produces the same callback twice: of each
\* type there are never more callbacks caused by an operation than calls of it.
C26_NeverTheSameCallbackTwice ==
  /\ SingleSource
  /\ \A type \in {"show", "select", "confirm", "hide"}, cause \in Causes :
       CallbacksOf(type, cause) <= CallsOf(cause)

\* C26, amended: every completion callback has one source per configuration:
\* with the extension inactive the API calls emit them and the popup events
\* none, with the extension active only the popup events do; so there are
\* never more show callbacks than show or update calls, nor more confirm or
\* more hide callbacks than operations that close the popup, and of the show,
\* confirm and hide callbacks an operation causes at most one each. Of the
\* select callbacks selectCompletion and hideCompletion cause at most one each
\* and showCompletion or updateCompletion at most two: the one of the
\* popupmenu_show that reports a preselected item and the one of the
\* popupmenu_select that its select request causes.
C26_SingleSourcePerConfiguration ==
  /\ SingleSource
  /\ CountOf(callbacks, IsShowCallback) <= CountOf(apiCalls, IsShowCall)
  /\ CountOf(callbacks, IsConfirmCallback) <= CountOf(apiCalls, IsClosingCall)
  /\ CountOf(callbacks, IsHideCallback) <= CountOf(apiCalls, IsClosingCall)
  /\ \A type \in {"show", "confirm", "hide"}, cause \in Causes :
       CallbacksOf(type, cause) <= CallsOf(cause)
  /\ \A cause \in Causes :
       CallbacksOf("select", cause)
         <= IF cause = "showCompletion" THEN 2 * CallsOf(cause) ELSE CallsOf(cause)

\* With the extension active a showCompletion and a hideCompletion have
\* returned and the host got one show and one hide, both from popup events.
C26_Witness ==
  /\ completionEnabled
  /\ Quiescent
  /\ Len(apiCalls) = 2
  /\ apiCalls[1].op = "show"
  /\ apiCalls[2].op = "hide"
  /\ CountOf(callbacks, IsShowCallback) = 1
  /\ CountOf(callbacks, IsHideCallback) = 1
  /\ callbacks[Len(callbacks)].via = "event"

-----------------------------------------------------------------------------
(* Redraw notifications as they come off the wire: values of any type *)

\* A decoded msgpack value carries its JavaScript type. Numbers are kept as
\* twice their value, so that 0.5 is a number of the model.
Num(n) == [t |-> "number", twice |-> 2 * n]
HalfNum == [t |-> "number", twice |-> 1]
Str(s) == [t |-> "string", s |-> s]
Nil == [t |-> "null"]
Arr(items) == [t |-> "array", items |-> items]
Obj(name, shape) == [t |-> "object", name |-> name, cursor_shape |-> shape]

isNumber(v) == v.t = "number"
isArray(v) == v.t = "array"
whole(v) == v.twice \div 2

\* `new Array(newW * newH)` of resizeGrid throws a RangeError when the product of
\* the sizes, each raised to 0 at least, is not a whole number.
invalidArrayLength(w, h) == (Max(0, w.twice) * Max(0, h.twice)) % 4 # 0

\* modeInfoArray.map((info) => ({name: String(info.name || ""), ...})): reading a
\* property of null throws a TypeError; a string has no such property and yields
\* the defaults.
modeInfoEntry(info) ==
  IF info.t = "object" THEN [name |-> info.name, cursor_shape |-> info.cursor_shape]
  ELSE [name |-> "", cursor_shape |-> "block"]

\* The state the handler works on: the grid, the render request, the mode
\* table, and whether the handler has thrown.
RawState ==
  [w |-> gridW, h |-> gridH, cells |-> grid, render |-> renderRequested,
   modeInfo |-> modeInfo, raised |-> FALSE]

\* The body of the `for (const call of args)` loop of one event, with the
\* checks the handler makes on the types of the arguments. The sizes of a
\* grid_resize are whole numbers or have a product that is not whole.
applyRedrawCall(s, name, call) ==
  IF s.raised THEN s
  ELSE IF ~isArray(call) THEN s
  ELSE LET args == call.items
       IN CASE name = "grid_resize" ->
                 IF Len(args) < 3 THEN s
                 ELSE IF ~(isNumber(args[2]) /\ isNumber(args[3])) THEN s
                 ELSE IF invalidArrayLength(args[2], args[3])
                   THEN [s EXCEPT !.raised = TRUE]
                 ELSE applyGridCall(s, name, <<1, whole(args[2]), whole(args[3])>>)
            [] name = "grid_clear" ->
                 IF Len(args) < 1 THEN s ELSE applyGridCall(s, name, <<1>>)
            [] name = "grid_line" ->
                 IF Len(args) < 4 THEN s
                 ELSE IF ~isNumber(args[2]) \/ ~isNumber(args[3]) \/ ~isArray(args[4])
                   THEN s
                 ELSE applyGridCall(s, name, <<1, whole(args[2]), whole(args[3]),
                                                args[4].items>>)
            [] name = "mode_info_set" ->
                 IF Len(args) < 2 THEN s
                 ELSE IF ~isArray(args[2]) THEN s
                 ELSE IF \E i \in DOMAIN args[2].items : args[2].items[i].t = "null"
                   THEN [s EXCEPT !.raised = TRUE]
                 ELSE [s EXCEPT !.modeInfo =
                         [i \in DOMAIN args[2].items |-> modeInfoEntry(args[2].items[i])]]
            [] OTHER -> s

RECURSIVE applyRedrawCalls(_, _, _, _)
applyRedrawCalls(s, name, calls, i) ==
  IF i > Len(calls) THEN s
  ELSE applyRedrawCalls(applyRedrawCall(s, name, calls[i]), name, calls, i + 1)

\* One turn of `for (const ev of events)`: an event that is not an array or is
\* empty is skipped; the grid events end with requestRender(), which a throw
\* inside the calls does not reach.
applyRedrawEvent(s, ev) ==
  IF s.raised THEN s
  ELSE IF ~isArray(ev) \/ Len(ev.items) = 0 THEN s
  ELSE LET name == ev.items[1]
           after == applyRedrawCalls(s, name, Tail(ev.items), 1)
       IN IF name \in RenderingEvents /\ ~after.raised
            THEN [after EXCEPT !.render = TRUE]
            ELSE after

\* applyRedrawEvents(events): a throw ends the loop.
RECURSIVE applyRedrawEvents(_, _, _)
applyRedrawEvents(s, events, i) ==
  IF i > Len(events) THEN s
  ELSE applyRedrawEvents(applyRedrawEvent(s, events[i]), events, i + 1)

\* The name of an event, <<>> where it has none.
eventName(ev) == IF isArray(ev) /\ Len(ev.items) > 0 THEN <<ev.items[1]>> ELSE <<>>

\* TRUE when the events handled were not followed by a flush. The loop ends at
\* the event that throws; the events of the alphabet that throw do so before
\* they have changed anything, and the events behind them are not handled.
RECURSIVE rawEndsUnflushed(_, _, _, _)
rawEndsUnflushed(s, before, events, i) ==
  IF i > Len(events) \/ s.raised THEN before
  ELSE LET after == applyRedrawEvent(s, events[i])
       IN rawEndsUnflushed(after,
                           IF after.raised \/ eventName(events[i]) = <<>> THEN before
                           ELSE eventName(events[i]) # <<"flush">>,
                           events, i + 1)

\* Events the editor sends.
RawResize(w, h) == Arr(<<"grid_resize", Arr(<<Num(1), w, h>>)>>)
RawClear == Arr(<<"grid_clear", Arr(<<Num(1)>>)>>)
RawLine(row, col, runs) == Arr(<<"grid_line", Arr(<<Num(1), row, col, Arr(runs)>>)>>)
RawModeInfo(entries) == Arr(<<"mode_info_set", Arr(<<Nil, entries>>)>>)
RawFlush == Arr(<<"flush">>)

WellFormedEvents ==
  {RawResize(Num(2), Num(2)), RawClear, RawFlush,
   RawLine(Num(0), Num(0), <<RunX>>),
   RawModeInfo(Arr(<<Obj("insert", "vertical")>>))}

\* Events no editor sends: a scalar, an empty tuple, an unknown name, too few
\* arguments, a call that is not a tuple, arguments of the wrong type, a size
\* that is not a whole number, and mode-info entries that are not objects.
MalformedEvents ==
  {Num(7), Arr(<<>>), Arr(<<"bogus", Arr(<<Num(1)>>)>>),
   Arr(<<"grid_resize", Arr(<<Num(1), Num(2)>>)>>),
   Arr(<<"grid_clear", Num(1)>>),
   RawResize(Str("2"), Num(2)),
   RawResize(HalfNum, Num(1)),
   RawLine(Str("0"), Num(0), <<RunX>>),
   RawModeInfo(Arr(<<Nil>>)),
   RawModeInfo(Arr(<<Str("insert")>>))}

RawAlphabet == WellFormedEvents \cup MalformedEvents

RawBatches == UNION {[1..n -> RawAlphabet] : n \in 1..MaxBatch}

\* One redraw notification with a batch of such events: what the handler has
\* done when it returns or throws stays. The notifications are recorded one at
\* a time.
RedrawRaw ==
  /\ lastBatch = <<>>
  /\ \E events \in RawBatches :
       LET after == applyRedrawEvents(RawState, events, 1)
       IN /\ gridW' = after.w
          /\ gridH' = after.h
          /\ grid' = after.cells
          /\ renderRequested' = after.render
          /\ modeInfo' = after.modeInfo
          /\ redrawRaised' = after.raised
          /\ unflushed' = rawEndsUnflushed(RawState, unflushed, events, 1)
          /\ lastBatch' = events
          /\ batchStart' = <<RawState>>
  /\ UNCHANGED <<lastOp, prevGrid, painted, bufVars, cursorVars, completionVars,
                 rawRest>>

\* The record of the last notification is dropped.
RawRelease ==
  /\ lastBatch # <<>>
  /\ lastBatch' = <<>>
  /\ batchStart' = <<>>
  /\ redrawRaised' = FALSE
  /\ UNCHANGED <<modeInfo, coreVars, rawRest>>

NextRaw ==
  \/ RedrawRaw
  \/ RawRelease

\* Redraw notifications with well-formed and malformed events.
SpecRaw == InitNoValue /\ [][NextRaw]_vars

\* The event is one the editor sends.
IsWellFormed(ev) == ev \in WellFormedEvents

\* What the batch leaves when its malformed events are taken out of it.
WithoutMalformed(start, events) ==
  applyRedrawEvents(start, SelectSeq(events, IsWellFormed), 1)

\* C27: a redraw batch with malformed or unrecognised events raises nothing and
\* leaves the grid and the mode table as the well-formed events of the batch,
\* applied in order, leave them: each malformed event is discarded alone.
C27_MalformedEventsDiscarded ==
  lastBatch # <<>> =>
    /\ ~redrawRaised
    /\ LET ref == WithoutMalformed(batchStart[1], lastBatch)
       IN /\ gridW = ref.w
          /\ gridH = ref.h
          /\ grid = ref.cells
          /\ modeInfo = ref.modeInfo

-----------------------------------------------------------------------------
(* Line writes: empty runs, repeat counts, and the cells a write may touch *)

\* Runs [text, hl?, repeat?] of a grid_line call: a character with a highlight
\* id, a character without one, the empty string the editor sends for the
\* right half of a double-width character (without and with an id), and runs
\* with a repeat count.
RunY == [text |-> <<"y">>, hl |-> <<>>, rep |-> <<>>]
RunEmpty == [text |-> <<>>, hl |-> <<>>, rep |-> <<>>]
RunEmptyHl == [text |-> <<>>, hl |-> <<2>>, rep |-> <<>>]
RunOnce == [text |-> <<"x">>, hl |-> <<1>>, rep |-> <<1>>]
RunNone == [text |-> <<"x">>, hl |-> <<1>>, rep |-> <<0>>]
RunTwice == [text |-> <<"x">>, hl |-> <<1>>, rep |-> <<2>>]
RunWide == [text |-> <<"x">>, hl |-> <<1>>, rep |-> <<4>>]

WriteRuns ==
  {<<RunX>>, <<RunX, RunY>>, <<RunX, RunEmpty, RunY>>, <<RunX, RunEmptyHl, RunY>>,
   <<RunOnce, RunY>>, <<RunNone, RunY>>, <<RunTwice, RunY>>, <<RunWide>>}

\* A grid_resize to three columns and two rows.
LineResize ==
  /\ Recording
  /\ Redraw(<<ResizeEvent(3, 2)>>)
  /\ Record([name |-> "grid_resize", args |-> <<3, 2>>])

\* A grid_line call with any row and start column around the grid.
LineWrite ==
  /\ Recording
  /\ \E row \in {-1, 0, 1, 2}, col \in {-1, 0, 2, 3}, runs \in WriteRuns :
       /\ Redraw(<<LineEvent(row, col, runs)>>)
       /\ Record([name |-> "grid_line", args |-> <<row, col, runs>>])

NextLine ==
  \/ LineResize
  \/ LineWrite
  \/ Release

\* Line writes into a grid of three columns and two rows.
SpecLine == InitNoValue /\ [][NextLine]_vars

\* The last operation was a line write; its arguments.
IsLineWrite == lastOp.name = "grid_line" /\ Len(lastOp.args) = 3
WriteRow == lastOp.args[1]
WriteCol == lastOp.args[2]
WriteRunsOf == lastOp.args[3]

\* The line write as specified: an empty run fills the current column with a
\* blank cell of the highlight id in use and leaves that id alone; a repeat
\* count of 0 counts as 1.
RECURSIVE refRuns(_, _, _, _, _)
refRuns(st, gw, row, runs, i) ==
  IF i > Len(runs) THEN st
  ELSE LET run == runs[i]
       IN IF run.text = <<>>
            THEN LET after == lineChars([cells |-> st.cells, col |-> st.col],
                                        gw, row, <<" ">>, st.hl, 1)
                 IN refRuns([cells |-> after.cells, col |-> after.col, hl |-> st.hl],
                            gw, row, runs, i + 1)
            ELSE LET currentHl == IF run.hl # <<>> THEN run.hl[1] ELSE st.hl
                     repeat == IF run.rep # <<>> /\ run.rep[1] # 0 THEN run.rep[1] ELSE 1
                     after == lineRepeat([cells |-> st.cells, col |-> st.col],
                                         gw, row, run.text, currentHl, 0, repeat)
                 IN refRuns([cells |-> after.cells, col |-> after.col,
                             hl |-> currentHl], gw, row, runs, i + 1)

writeLineRef(g, gw, gh, row, colStart, runs) ==
  IF row < 0 \/ row >= gh THEN g
  ELSE refRuns([cells |-> g, col |-> colStart, hl |-> 0], gw, row, runs, 1).cells

WriteRef ==
  writeLineRef(prevGrid.cells, prevGrid.w, prevGrid.h, WriteRow, WriteCol, WriteRunsOf)

\* C28: in a line write a run whose text is the empty string fills the current
\* column with a blank continuation cell carrying the highlight id of the run
\* it follows, the runs after it land one column further right, and the empty
\* run does not change the highlight id of later runs (runs without a repeat
\* count).
C28_EmptyRunFillsOneCell ==
  (/\ IsLineWrite
   /\ \A i \in DOMAIN WriteRunsOf : WriteRunsOf[i].rep = <<>>) =>
    grid = WriteRef

\* C29: in a line write a run with repeat count 0 is written as one occurrence
\* of its text (runs with a text that is not empty).
C29_RepeatZeroWritesOnce ==
  (/\ IsLineWrite
   /\ \A i \in DOMAIN WriteRunsOf : WriteRunsOf[i].text # <<>>) =>
    grid = WriteRef

\* C30: a line write changes only cells of its row in the columns from
\* max(0, start column) up to the width: nothing wraps into the next row, a
\* row outside the grid changes nothing, and the size stays.
C30_WriteStaysInRow ==
  IsLineWrite =>
    /\ gridW = prevGrid.w
    /\ gridH = prevGrid.h
    /\ DOMAIN grid = DOMAIN prevGrid.cells
    /\ \A idx \in DOMAIN grid :
         grid[idx] # prevGrid.cells[idx] =>
           /\ WriteRow >= 0
           /\ WriteRow < gridH
           /\ idx \div gridW = WriteRow
           /\ idx % gridW >= Max(0, WriteCol)
           /\ idx % gridW < gridW

\* Four occurrences of x were written from column 2 of row 0: the cell at
\* column 2 took the first, the rest was dropped and row 1 kept its y.
C30_Witness ==
  /\ IsLineWrite
  /\ gridW = 3
  /\ gridH = 2
  /\ WriteRow = 0
  /\ WriteCol = 2
  /\ WriteRunsOf = <<RunWide>>
  /\ prevGrid.cells[2] = Blank
  /\ grid[2] = Inked
  /\ grid[3] = [ch |-> "y", hl |-> 1]

-----------------------------------------------------------------------------
(* Host resizes: onResize, next to bootstrap and the redraw events *)

\* The onResize() calls of one behaviour.
MaxResizeCalls == 2

\* onResize() after `await this.bootPromise` sending its request whatever became
\* of bootstrap().
resizeAfterBoot_NoAwait(pc) == "request"

\* onResize() at `await this.bootPromise`: it goes on to uiTryResize once
\* bootstrap() has returned, lands in the catch block once bootstrap() has
\* thrown, and waits until then.
resizeAfterBoot(pc) ==
  IF pc = "done" THEN "request"
  ELSE IF pc = "failed" THEN "swallowed"
  ELSE "wait"

\* onResize(width, height) up to `await this.bootPromise`; cols and rows are
\* the size of the content rectangle, at least 1.
OnResize ==
  /\ Len(resizeCalls) + Len(resizeLog) < MaxResizeCalls
  /\ \E cols \in {2}, rows \in {1, 2} :
       resizeCalls' = Append(resizeCalls, [cols |-> cols, rows |-> rows, pc |-> "boot"])
  /\ UNCHANGED <<resizeLog, coreVars, hostRest>>

\* bootPromise has settled for the call at index i.
ResizeBootSettles ==
  \E i \in DOMAIN resizeCalls :
    LET c == resizeCalls[i]
        next == resizeAfterBoot(bootPc)
    IN /\ c.pc = "boot"
       /\ next # "wait"
       /\ IF next = "request"
            THEN /\ resizeCalls' = [resizeCalls EXCEPT ![i].pc = "request"]
                 /\ resizeLog' = resizeLog
            ELSE /\ resizeCalls' = RemoveAt(resizeCalls, i)
                 /\ resizeLog' = Append(resizeLog,
                      [cols |-> c.cols, rows |-> c.rows, sent |-> FALSE,
                       outcome |-> "swallowed"])
       /\ UNCHANGED <<coreVars, hostRest>>

\* uiTryResize(cols, rows) of the call at index i resolves, or rejects into
\* the empty catch block.
ResizeRequestSettles ==
  \E i \in DOMAIN resizeCalls, ok \in BOOLEAN :
    LET c == resizeCalls[i]
    IN /\ c.pc = "request"
       /\ resizeCalls' = RemoveAt(resizeCalls, i)
       /\ resizeLog' = Append(resizeLog,
            [cols |-> c.cols, rows |-> c.rows, sent |-> TRUE,
             outcome |-> IF ok THEN "ok" ELSE "swallowed"])
       /\ UNCHANGED <<coreVars, hostRest>>

\* The redraw events next to the host resizes: two sizes, clear, a line write
\* into each row and a scroll up of the whole grid.
HostAlphabet ==
  {ResizeEvent(2, 2), ResizeEvent(1, 2), ClearEvent, ScrollEvent(0, 2, 0, 2, 1, 0),
   LineEvent(0, 0, <<RunX>>), LineEvent(1, 0, <<RunX, RunX>>)}

\* A redraw notification with one event of the alphabet; the event and the
\* grid it found are kept.
HostGridEvent ==
  /\ \E ev \in HostAlphabet :
       /\ Redraw(<<ev>>)
       /\ lastOp' = [name |-> ev.name,
                     args |-> IF ev.calls = <<>> THEN <<>> ELSE ev.calls[1]]
  /\ prevGrid' = [w |-> gridW, h |-> gridH, cells |-> grid]

NextHost ==
  \/ UiAttach
  \/ UiAttachFails
  \/ BindToFirstBuffer
  \/ WriteInitialValue
  \/ BootstrapMode
  \/ OnResize
  \/ ResizeBootSettles
  \/ ResizeRequestSettles
  \/ HostGridEvent

\* Host resizes and redraw events while and after the component starts.
SpecHost == InitNoValue /\ [][NextHost]_vars

\* A step of an onResize() call.
ResizeStep == resizeCalls' # resizeCalls \/ resizeLog' # resizeLog

\* C38: a host resize sends its request only after bootstrap has completed;
\* when bootstrap failed or the request fails the handler ends in its catch
\* block, and no step of a host resize changes the grid, the cursor, the mode,
\* the buffer binding or the completion state.
C38_ResizeAfterBootOnly ==
  /\ [](/\ \A i \in DOMAIN resizeCalls :
             resizeCalls[i].pc = "request" => (bootPc = "done" /\ attached)
        /\ \A k \in DOMAIN resizeLog :
             /\ resizeLog[k].sent => (bootPc = "done" /\ attached)
             /\ resizeLog[k].outcome \in {"ok", "swallowed"}
        /\ (bootPc = "failed" /\ resizeCalls = <<>>) =>
             \A k \in DOMAIN resizeLog : ~resizeLog[k].sent)
  /\ [][ResizeStep =>
          UNCHANGED <<gridW, gridH, grid, cursorVars, currentVimMode, boundBufferId,
                      completionVars>>]_vars

\* Bootstrap has completed, one resize was sent and its request failed, and the
\* grid still has the size of the last grid_resize event.
C38_Witness ==
  /\ bootPc = "done"
  /\ Len(resizeLog) = 1
  /\ resizeLog[1].sent
  /\ resizeLog[1].outcome = "swallowed"
  /\ resizeCalls = <<>>
  /\ gridW = 2
  /\ gridH = 2


\* C31: the grid holds exactly width * height cells, width and height being
\* those of the most recent grid_resize event; clear, line-write and scroll
\* events and the host's resize requests change neither width nor height nor
\* the number of cells, and clear leaves every cell blank with highlight id 0.
C31_SizeFollowsLastResize ==
  /\ [](/\ DOMAIN grid = 0..(gridW * gridH - 1)
        /\ lastOp.name = "grid_resize" =>
             /\ gridW = Max(0, lastOp.args[2])
             /\ gridH = Max(0, lastOp.args[3])
        /\ lastOp.name \in {"grid_clear", "grid_line", "grid_scroll", "flush"} =>
             /\ gridW = prevGrid.w
             /\ gridH = prevGrid.h
             /\ DOMAIN grid = DOMAIN prevGrid.cells
        /\ lastOp.name = "grid_clear" => \A idx \in DOMAIN grid : grid[idx] = Blank)
  /\ [][ResizeStep => UNCHANGED <<gridW, gridH, grid>>]_vars

\* A clear event blanked a 2x2 grid that held an inked cell, after a host resize
\* had been sent.
C31_Witness ==
  /\ lastOp.name = "grid_clear"
  /\ prevGrid.w = 2
  /\ prevGrid.h = 2
  /\ \E idx \in DOMAIN prevGrid.cells : prevGrid.cells[idx] = Inked
  /\ gridW = 2
  /\ gridH = 2
  /\ \E k \in DOMAIN resizeLog : resizeLog[k].sent


\* The style the definition handled last would resolve to without its reverse
\* flag, under the current defaults.
ResolvedPlain ==
  LET d == lastHlDef[1]
      plain == [d.attrs EXCEPT !.flags = @ \ {"reverse"}]
      table == [i \in DOMAIN hlTable |-> IF i = d.id THEN parseHl(plain) ELSE hlTable[i]]
  IN resolveStyle(table, defaultFg, defaultBg, d.id)

\* C32: a highlight defined with reverse resolves to the colours the same
\* definition without reverse resolves to, swapped: its foreground is that
\* background and its background that foreground, also when the definition
\* omits a colour and the colour comes from the current defaults.
C32_SwapAfterResolving ==
  (lastHlDef # <<>> /\ "reverse" \in lastHlDef[1].attrs.flags) =>
    /\ Resolved(lastHlDef[1].id).fg = ResolvedPlain.bg
    /\ Resolved(lastHlDef[1].id).bg = ResolvedPlain.fg

-----------------------------------------------------------------------------
(* The mode next to bootstrap and the host's calls *)

NextModeBoot ==
  \/ UiAttach
  \/ BindToFirstBuffer
  \/ WriteInitialValue
  \/ BootstrapMode
  \/ BootstrapModeFails
  \/ ModeChange
  \/ OnResize
  \/ ResizeBootSettles
  \/ ResizeRequestSettles

\* mode_change events while and after the component starts.
SpecModeBoot == InitNoValue /\ [][NextModeBoot]_vars

\* C33: the current mode changes only while a mode_change event is handled, and
\* every change is reported through onModeChange: bootstrap, the host's calls
\* and the other events leave it alone.
C33_ModeChangesOnlyOnEvent ==
  [][currentVimMode' # currentVimMode =>
       /\ Len(modeEvents') = Len(modeEvents) + 1
       /\ modeEvents'[Len(modeEvents')].emitted # <<>>]_vars

-----------------------------------------------------------------------------
(* Notifications of the bound buffer and the callbacks they lead to *)

NextNotesLive ==
  \/ UiAttach
  \/ BindToFirstBuffer
  \/ RemoteEdit
  \/ RemoteNewBuffer
  \/ HandleBufferLines
  \/ HandleBufferChangedtick
  \/ HandleBufferDetach
  \/ ReadBackResolves

\* The notifications of the bound buffer with every read answered: the
\* response of a request that was sent arrives.
SpecNotesLive ==
  InitNoValue /\ [][NextNotesLive]_vars /\ WF_vars(ReadBackResolves)

\* The step handles a lines or changedtick notification that names the bound
\* buffer.
BoundNoteStep ==
  /\ HandleBufferLines \/ HandleBufferChangedtick
  /\ lastNote'.buf = boundBufferId

\* The read-back that a notification asks for.
ReadBackOf(note) == [tick |-> note.tick, buf |-> note.buf, read |-> boundBufferId]

\* Every read-back that was asked for ends in one onChange callback with the
\* text that was read, the changedtick of the notification, the cursor
\* snapshot and the mode.
ReadBacksAnswered ==
  /\ [][readBacks' # readBacks /\ Len(readBacks') < Len(readBacks) + 1 =>
          /\ readBacks' = Tail(readBacks)
          /\ Len(onChanges') = Len(onChanges) + 1
          /\ LET cb == onChanges'[Len(onChanges')]
             IN /\ cb.tick = Head(readBacks).tick
                /\ cb.value = joinLf(bufLines, 1)
                /\ cb.cursor = lastKnownCursor
                /\ cb.mode = currentVimMode]_vars
  /\ \A n \in 1..MaxNotes :
       (Len(readBacks) + Len(onChanges) >= n) ~> (Len(onChanges) >= n)

\* C34 as stated: every lines or changedtick notification that carries the
\* bound buffer id asks for one read-back of the text, and every read-back ends
\* in one onChange callback with value, changedtick, cursor snapshot and mode.
C34_EveryBoundNoteCallsBack ==
  /\ [][BoundNoteStep => readBacks' = Append(readBacks, ReadBackOf(lastNote'))]_vars
  /\ ReadBacksAnswered

\* C34, amended: every lines or changedtick notification that carries the bound
\* buffer id and a changedtick that is a number asks for one read-back of the
\* text, and every read-back ends in one onChange callback with value,
\* changedtick, cursor snapshot and mode.
C34_BoundNoteWithTickCallsBack ==
  /\ [][(BoundNoteStep /\ lastNote'.tick # <<>>) =>
          readBacks' = Append(readBacks, ReadBackOf(lastNote'))]_vars
  /\ ReadBacksAnswered

\* Two notifications of the bound buffer were answered by two callbacks, the
\* last one a changedtick notification with tick 1.
C34_Witness ==
  /\ boundBufferId # 0
  /\ lastNote = [kind |-> "changedtick", buf |-> boundBufferId, tick |-> <<1>>]
  /\ readBacks = <<>>
  /\ Len(onChanges) = 2
  /\ onChanges[2].tick = <<1>>
  /\ onChanges[2].value = joinLf(bufLines, 1)

-----------------------------------------------------------------------------
(* The changedtick of the editor and the text the callbacks carry *)

tickOthers ==
  <<modeVars, shutVars, bootVars, hlVars, keyVars, syncVars, rawVars, hostVars,
    listenVars>>

\* The editor's b:changedtick of the bound buffer, counted from the binding.
remoteTick == Len(tickTexts)

\* The editor changes the bound buffer (a line is added at the end or the last
\* line is removed), which raises b:changedtick, and its nvim_buf_lines_event
\* with the new tick is handled by handleBoundBufferLines.
EditNotified ==
  /\ boundBufferId # 0
  /\ "lines" \in bufferListeners
  /\ remoteTick < MaxNotes
  /\ \/ /\ Len(bufLines) <= MaxTextLen
        /\ bufLines' = Append(bufLines, <<"a">>)
     \/ /\ Len(bufLines) > 1
        /\ bufLines' = SubSeq(bufLines, 1, Len(bufLines) - 1)
  /\ tickTexts' = Append(tickTexts, bufLines')
  /\ LET tick == <<remoteTick + 1>>
     IN /\ lastNote' = [kind |-> "lines", buf |-> boundBufferId, tick |-> tick]
        /\ IF isBoundBuffer(boundBufferId, boundBufferId)
             THEN /\ lastKnownChangedtick' = tick
                  /\ readBacks' = emitOnChange(readBacks, boundBufferId, tick,
                                               boundBufferId)
             ELSE UNCHANGED <<lastKnownChangedtick, readBacks>>
  /\ lastSet' = NoText
  /\ lastGot' = NoText
  /\ UNCHANGED <<boundBufferId, otherLines, onChanges, gridVars, paintVars,
                 cursorVars, completionVars, tickOthers>>

\* The editor raises b:changedtick without changing the text, and its
\* nvim_buf_changedtick_event is handled by handleBoundBufferChangedtick.
TickNotified ==
  /\ boundBufferId # 0
  /\ "changedtick" \in bufferListeners
  /\ remoteTick < MaxNotes
  /\ tickTexts' = Append(tickTexts, bufLines)
  /\ LET tick == <<remoteTick + 1>>
     IN /\ lastNote' = [kind |-> "changedtick", buf |-> boundBufferId, tick |-> tick]
        /\ IF isBoundBuffer(boundBufferId, boundBufferId)
             THEN /\ lastKnownChangedtick' = tick
                  /\ readBacks' = emitOnChange(readBacks, boundBufferId, tick,
                                               boundBufferId)
             ELSE UNCHANGED <<lastKnownChangedtick, readBacks>>
  /\ UNCHANGED <<bufVars, otherLines, onChanges, gridVars, paintVars,
                 cursorVars, completionVars, tickOthers>>

NextTicks ==
  \/ UiAttach
  \/ BindToFirstBuffer
  \/ RemoteNewBuffer
  \/ EditNotified
  \/ TickNotified
  \/ ReadBackResolves
  \/ ReadBackRejects

\* The editor changes the bound buffer while read-backs are in flight.
SpecTicks == InitNoValue /\ [][NextTicks]_vars

\* C35: the value of each onChange callback is the text the bound buffer had
\* at the changedtick the callback carries, and the callbacks come in
\* non-decreasing changedtick order.
C35_ValueAsOfTick ==
  /\ \A i \in DOMAIN onChanges :
       /\ onChanges[i].tick # <<>>
       /\ onChanges[i].tick[1] \in DOMAIN tickTexts
       /\ onChanges[i].value = joinLf(tickTexts[onChanges[i].tick[1]], 1)
  /\ \A i, j \in DOMAIN onChanges :
       i < j => onChanges[i].tick[1] <= onChanges[j].tick[1]

-----------------------------------------------------------------------------
(* The cursor snapshot once reconciliation has come to rest *)

\* C36: whenever cursor reconciliation is quiescent after a grid_cursor_goto
\* event, the screen row and the grid id of the cursor snapshot are those of
\* the most recent grid_cursor_goto event, whether the round trips succeeded or
\* failed.
C36_QuiescentRowAndGrid ==
  (CursorQuiescent /\ cursorEvents > 0) =>
    /\ lastKnownCursor.row = cursorRow
    /\ lastKnownCursor.grid = cursorGrid

-----------------------------------------------------------------------------
(* Shutdown while bootstrap, round trips and notifications go on *)

\* The transport is open until close() has settled: responses and
\* notifications arrive until then.
ChannelOpen == shutPc # "done"

\* The editor sends redraw notifications to an attached UI, until it has
\* handled the detach request.
UiShown == attached /\ shutPc \in {"idle", "detach"}

\* The steps of bootstrap(), each the arrival of a response.
RaceUiAttach == ChannelOpen /\ UiAttach
RaceBindToFirstBuffer == ChannelOpen /\ BindToFirstBuffer
RaceWriteInitialValue == ChannelOpen /\ WriteInitialValue
RaceBootstrapMode == ChannelOpen /\ BootstrapMode

\* The first redraw notification with a mode_change event.
RaceModeChange == UiShown /\ modeEvents = <<>> /\ ModeChange

\* The first lines notification reaches its listener: shutdown() has stopped
\* the listeners that were registered before it, and no others.
RaceBufferLines ==
  ChannelOpen /\ readBacks = <<>> /\ onChanges = <<>> /\ HandleBufferLines

\* Responses to the read-back and to the cursor round trip that bootstrap()
\* starts.
RaceReadBackResolves == ChannelOpen /\ ReadBackResolves
RaceCursorWindowResolves == ChannelOpen /\ CursorWindowResolves
RaceCursorFetchResolves == ChannelOpen /\ CursorFetchResolves

NextShutdownRace ==
  \/ RaceUiAttach
  \/ RaceBindToFirstBuffer
  \/ RaceWriteInitialValue
  \/ RaceBootstrapMode
  \/ Shutdown
  \/ ShutdownDetachSettles
  \/ ShutdownCloseSettles
  \/ RaceModeChange
  \/ RaceBufferLines
  \/ RaceReadBackResolves
  \/ RaceCursorWindowResolves
  \/ RaceCursorFetchResolves

\* shutdown() called at any point of the life of the component.
SpecShutdownRace == InitNoValue /\ [][NextShutdownRace]_vars

\* The step calls onReady, onChange, onModeChange, onCursorChange (from a
\* grid_cursor_goto or from a round trip that resolved) or a completion
\* callback.
CallbackStep ==
  \/ onReadyLog' # onReadyLog
  \/ onChanges' # onChanges
  \/ /\ Len(modeEvents') = Len(modeEvents) + 1
     /\ modeEvents'[Len(modeEvents')].emitted # <<>>
  \/ cursorEvents' # cursorEvents
  \/ CursorFetchResolves
  \/ callbacks' # callbacks

\* The step registers the listeners of the buffer it binds.
ListenerStep == boundBufferId = 0 /\ boundBufferId' # 0

\* C37: once shutdown has begun no application callback is invoked and no
\* buffer listener is registered, whatever was in flight when it began.
C37_QuietAfterShutdown ==
  [][shuttingDown => (~CallbackStep /\ ~ListenerStep)]_vars

-----------------------------------------------------------------------------
(* Key dispatch: what handleKeyPress sends and returns *)

\* The key handled last is the escape key and it found the mode "normal".
EscapeInNormal == lastKey.blurred

\* C39 as stated: key dispatch makes exactly one input call, with the
\* translator's output, whenever the translator yields a string, and reports
\* the key as handled; it sends nothing and reports not handled exactly when
\* the translator yields nothing.
C39_OneSendPerTranslatedKey ==
  ~NoKey =>
    /\ lastKey.input # <<>> =>
         (lastKey.sends = <<lastKey.input[1]>> /\ lastKey.handled)
    /\ (lastKey.sends = <<>> /\ ~lastKey.handled) <=> lastKey.input = <<>>
    /\ lastKey.input = <<>> => lastKey.sends = <<>>

\* C39, amended: except for the escape key while the mode held is "normal",
\* which blurs the component, sends nothing and is reported as handled, key
\* dispatch makes exactly one input call, with the translator's output,
\* whenever the translator yields a string, and reports the key as handled; it
\* sends nothing and reports not handled exactly when the translator yields
\* nothing.
C39_OneSendUnlessEscapeBlurs ==
  /\ [][lastKey' # lastKey =>
          (lastKey'.blurred <=>
             (/\ lastKey'.key.name = <<"e", "s", "c", "a", "p", "e">>
              /\ currentVimMode = "normal"))]_vars
  /\ [](~NoKey =>
          /\ lastKey.input = keyEventToNvimInput(lastKey.key)
          /\ EscapeInNormal => (lastKey.sends = <<>> /\ lastKey.handled)
          /\ ~EscapeInNormal =>
               /\ lastKey.input # <<>> =>
                    (lastKey.sends = <<lastKey.input[1]>> /\ lastKey.handled)
               /\ lastKey.input = <<>> => (lastKey.sends = <<>> /\ ~lastKey.handled))

\* Escape was pressed in mode "normal": the component lost the focus and
\* nothing was sent, although the translator gives <Esc>.
C39_Witness ==
  /\ ~NoKey
  /\ currentVimMode = "normal"
  /\ lastKey.key.name = <<"e", "s", "c", "a", "p", "e">>
  /\ lastKey.input = <<<<"<", "E", "s", "c", ">">>>>
  /\ lastKey.blurred
  /\ lastKey.sends = <<>>
  /\ lastKey.handled

\* The text with every "<" written as <LT>.
RECURSIVE encodeLt(_)
encodeLt(text) ==
  IF text = <<>> THEN <<>>
  ELSE (IF Head(text) = "<" THEN <<"<", "L", "T", ">">> ELSE <<Head(text)>>)
         \o encodeLt(Tail(text))

\* The key handled last is a printable input: no named key, a character
\* sequence, neither control nor alt.
PrintableKey ==
  /\ ~NoKey
  /\ ~inSpecial(lastKey.key.name)
  /\ ~isFunctionKey(lastKey.key.name)
  /\ Len(lastKey.key.sequence) > 0
  /\ ~lastKey.key.ctrl
  /\ ~lastKey.key.meta
  /\ ~lastKey.key.option

\* C40: a printable input that contains the character "<" is sent with that
\* character written as <LT>, never as a bare "<".
C40_LessThanSentAsLT ==
  (PrintableKey /\ \E i \in DOMAIN lastKey.key.sequence : lastKey.key.sequence[i] = "<") =>
    lastKey.sends = <<encodeLt(lastKey.key.sequence)>>

=============================================================================
